---- MODULE Spec2Model ----
(***************************************************************************)
(* Model of the technical-indicator engine of the stock-market digital     *)
(* twin UI (src/ui/src/utils/technicalIndicators.js).                      *)
(*                                                                         *)
(* Every function of the engine is pure, so each is an operator, computed  *)
(* as the JavaScript computes it, and each specification draws the         *)
(* function's arguments in Init and applies the function in one action.    *)
(*                                                                         *)
(* JavaScript values are records tagged by the field t:                    *)
(*   "num"   a finite number, the exact rational n/d in lowest terms       *)
(*   "surd"  a finite irrational a + b*sqrt(v) (Math.sqrt of a non-square) *)
(*   "inf"   +Infinity (n = 1) or -Infinity (n = -1)                       *)
(*   "nan"   NaN        "null"  null        "undefined"  undefined         *)
(*   "bar"   an OHLCV object {high, low, close, volume}                    *)
(*   "squeeze" an entry of calculateTTMSqueeze                             *)
(* Doubles are idealised as exact rationals: rounding is not modelled, and *)
(* -0 is identified with +0. Arrays are sequences; the JavaScript index i  *)
(* is the sequence index i + 1 (see At).                                   *)
(***************************************************************************)
EXTENDS Integers, Sequences, FiniteSets, TLC

VARIABLES pc, fn, args, ret, hook, dashboard

vars == <<pc, fn, args, ret, hook, dashboard>>

-----------------------------------------------------------------------------
(* JavaScript numbers                                                      *)

RECURSIVE GCD(_, _)
GCD(a, b) == IF b = 0 THEN a ELSE GCD(b, a % b)

AbsInt(a) == IF a < 0 THEN -a ELSE a

MinInt(a, b) == IF a < b THEN a ELSE b

MaxInt(a, b) == IF a > b THEN a ELSE b

SignInt(a) == IF a > 0 THEN 1 ELSE IF a < 0 THEN -1 ELSE 0

\* the number n/d (d # 0) in lowest terms with a positive denominator
Rat(n, d) ==
  LET s == IF d < 0 THEN -1 ELSE 1
      g == GCD(AbsInt(n), AbsInt(d))
  IN  [t |-> "num", n |-> (s * n) \div g, d |-> (s * d) \div g]

Num(k) == [t |-> "num", n |-> k, d |-> 1]

Zero == Num(0)

NaN == [t |-> "nan", n |-> 0, d |-> 1]

Undefined == [t |-> "undefined", n |-> 0, d |-> 1]

Null == [t |-> "null", n |-> 0, d |-> 1]

Infinity(s) == [t |-> "inf", n |-> s, d |-> 1]

\* a + b*sqrt(v), with a, b, v finite rationals, b # 0, v > 0 not a square
Surd(a, b, v) == [t |-> "surd", a |-> a, b |-> b, v |-> v]

IsNum(x) == x.t = "num"

IsNaN(x) == x.t = "nan"

\* typeof x === 'number'
IsNumberType(x) == x.t \in {"num", "surd", "inf", "nan"}

\* the numeric conversion applied by the arithmetic and relational operators
ToNumber(x) ==
  CASE IsNumberType(x) -> x
    [] x.t = "null" -> Zero
    [] OTHER -> NaN

RatAdd(x, y) ==
  LET g == GCD(x.d, y.d)
  IN  Rat(x.n * (y.d \div g) + y.n * (x.d \div g), (x.d \div g) * y.d)

RatNeg(x) == [t |-> "num", n |-> -x.n, d |-> x.d]

RatMul(x, y) ==
  LET g1 == GCD(AbsInt(x.n), y.d)
      g2 == GCD(AbsInt(y.n), x.d)
      h1 == IF g1 = 0 THEN 1 ELSE g1
      h2 == IF g2 = 0 THEN 1 ELSE g2
  IN  Rat((x.n \div h1) * (y.n \div h2), (x.d \div h2) * (y.d \div h1))

\* y # 0
RatInv(y) == Rat(y.d, y.n)

RatSign(x) == SignInt(x.n)

\* the sign of a finite or infinite number
Sign(x) ==
  CASE x.t = "num" -> RatSign(x)
    [] x.t = "inf" -> x.n
    [] x.t = "surd" ->
         LET sa == RatSign(x.a)
             sb == RatSign(x.b)
             a2 == RatMul(x.a, x.a)
             b2v == RatMul(RatMul(x.b, x.b), x.v)
         IN  IF sa = 0 \/ sa = sb THEN sb
             ELSE IF RatSign(RatAdd(b2v, RatNeg(a2))) > 0 THEN sb ELSE sa

\* -x, x a number
NegNum(x) ==
  CASE x.t = "nan" -> NaN
    [] x.t = "inf" -> Infinity(-x.n)
    [] x.t = "num" -> RatNeg(x)
    [] x.t = "surd" -> Surd(RatNeg(x.a), RatNeg(x.b), x.v)

\* -x0
Neg(x0) == NegNum(ToNumber(x0))

\* a + b*sqrt(v), or a when b is zero
SurdOrRat(a, b, v) == IF b.n = 0 THEN a ELSE Surd(a, b, v)

\* x + y, x and y numbers
AddNum(x, y) ==
  CASE x.t = "nan" \/ y.t = "nan" -> NaN
    [] x.t = "inf" /\ y.t = "inf" -> IF x.n = y.n THEN x ELSE NaN
    [] x.t = "inf" -> x
    [] y.t = "inf" -> y
    [] x.t = "num" /\ y.t = "num" -> RatAdd(x, y)
    [] x.t = "surd" /\ y.t = "num" -> Surd(RatAdd(x.a, y), x.b, x.v)
    [] x.t = "num" /\ y.t = "surd" -> Surd(RatAdd(x, y.a), y.b, y.v)
    [] x.t = "surd" /\ y.t = "surd" /\ x.v = y.v ->
         SurdOrRat(RatAdd(x.a, y.a), RatAdd(x.b, y.b), x.v)

\* x0 + y0
Add(x0, y0) == AddNum(ToNumber(x0), ToNumber(y0))

\* x0 - y0
Sub(x0, y0) == Add(x0, Neg(y0))

\* the product of a nonzero sign s with an infinity: NaN when s = 0
InfinityOrNaN(s) == IF s = 0 THEN NaN ELSE Infinity(s)

\* x * y, x and y numbers
MulNum(x, y) ==
  CASE x.t = "nan" \/ y.t = "nan" -> NaN
    [] x.t = "inf" \/ y.t = "inf" -> InfinityOrNaN(Sign(x) * Sign(y))
    [] x.t = "num" /\ y.t = "num" -> RatMul(x, y)
    [] x.t = "surd" /\ y.t = "num" ->
         IF y.n = 0 THEN Zero ELSE Surd(RatMul(x.a, y), RatMul(x.b, y), x.v)
    [] x.t = "num" /\ y.t = "surd" ->
         IF x.n = 0 THEN Zero ELSE Surd(RatMul(x, y.a), RatMul(x, y.b), y.v)

\* x0 * y0
Mul(x0, y0) == MulNum(ToNumber(x0), ToNumber(y0))

\* x / y, x and y numbers
DivNum(x, y) ==
  CASE x.t = "nan" \/ y.t = "nan" -> NaN
    [] x.t = "inf" /\ y.t = "inf" -> NaN
    [] x.t = "inf" -> Infinity(IF Sign(y) < 0 THEN -x.n ELSE x.n)
    [] y.t = "inf" -> Zero
    [] y.t = "num" /\ y.n = 0 -> InfinityOrNaN(Sign(x))
    [] y.t = "num" -> MulNum(x, RatInv(y))

\* x0 / y0
Div(x0, y0) == DivNum(ToNumber(x0), ToNumber(y0))

\* x < y, x and y numbers
LtNum(x, y) ==
  CASE x.t = "nan" \/ y.t = "nan" -> FALSE
    [] x.t = "inf" /\ y.t = "inf" -> x.n < y.n
    [] OTHER -> Sign(AddNum(x, NegNum(y))) < 0

\* x0 < y0
Lt(x0, y0) == LtNum(ToNumber(x0), ToNumber(y0))

\* x0 > y0
Gt(x0, y0) == Lt(y0, x0)

\* x0 <= y0
Le(x0, y0) ==
  ~IsNaN(ToNumber(x0)) /\ ~IsNaN(ToNumber(y0)) /\ ~Lt(y0, x0)

\* x0 >= y0
Ge(x0, y0) == Le(y0, x0)

\* x === y
StrictEq(x, y) == ~IsNaN(x) /\ ~IsNaN(y) /\ x = y

\* the condition of if (x), x && ..., x || ..., !x
Truthy(x) ==
  CASE x.t \in {"undefined", "null", "nan"} -> FALSE
    [] x.t = "num" -> x.n # 0
    [] OTHER -> TRUE

\* x || y
OrElse(x, y) == IF Truthy(x) THEN x ELSE y

\* |x|, x a number
AbsNum(x) ==
  CASE x.t = "nan" -> NaN
    [] x.t = "inf" -> Infinity(1)
    [] OTHER -> IF Sign(x) < 0 THEN NegNum(x) ELSE x

\* Math.abs(x0)
Abs(x0) == AbsNum(ToNumber(x0))

\* the larger of the numbers x and y, neither NaN
MaxNum(x, y) == IF LtNum(x, y) THEN y ELSE x

\* the largest of the numbers x, y and z
Max3Num(x, y, z) ==
  IF IsNaN(x) \/ IsNaN(y) \/ IsNaN(z) THEN NaN ELSE MaxNum(MaxNum(x, y), z)

\* Math.max(x0, y0, z0)
Max3(x0, y0, z0) == Max3Num(ToNumber(x0), ToNumber(y0), ToNumber(z0))

RECURSIVE ISqrtBetween(_, _, _)
\* the k of lo..hi with k*k <= n < (k+1)*(k+1), by bisection
ISqrtBetween(n, lo, hi) ==
  IF lo >= hi THEN lo
  ELSE LET mid == (lo + hi + 1) \div 2
       IN  IF mid * mid <= n THEN ISqrtBetween(n, mid, hi)
           ELSE ISqrtBetween(n, lo, mid - 1)

\* the integer part of the square root of n >= 0
ISqrt(n) == ISqrtBetween(n, 0, MinInt(n, 46340))

IsSquare(n) == ISqrt(n) * ISqrt(n) = n

\* the square root of the number x
SqrtNum(x) ==
  CASE x.t = "nan" -> NaN
    [] x.t = "inf" -> IF x.n > 0 THEN x ELSE NaN
    [] x.t = "num" ->
         IF x.n < 0 THEN NaN
         ELSE IF IsSquare(x.n) /\ IsSquare(x.d) THEN Rat(ISqrt(x.n), ISqrt(x.d))
         ELSE Surd(Zero, Num(1), x)

\* Math.sqrt(x0)
Sqrt(x0) == SqrtNum(ToNumber(x0))

\* Math.pow(x0, 2)
Pow2(x0) == Mul(x0, x0)

-----------------------------------------------------------------------------
(* JavaScript arrays                                                       *)

\* arr[i]: undefined outside 0 .. length-1
At(arr, i) == IF i >= 0 /\ i < Len(arr) THEN arr[i + 1] ELSE Undefined

\* arr.slice(start, end): a negative index counts from the end
Slice(arr, start, end) ==
  LET len == Len(arr)
      from == IF start < 0 THEN MaxInt(len + start, 0) ELSE MinInt(start, len)
      to == IF end < 0 THEN MaxInt(len + end, 0) ELSE MinInt(end, len)
  IN  IF from >= to THEN << >> ELSE SubSeq(arr, from + 1, to)

\* the object {high, low, close, volume}; a missing property is Undefined
Bar(high, low, close, volume) ==
  [t |-> "bar", high |-> high, low |-> low, close |-> close, volume |-> volume]

\* x.close, x.high, x.low, x.volume: undefined when x is a number
Close(x) == IF x.t = "bar" THEN x.close ELSE Undefined

High(x) == IF x.t = "bar" THEN x.high ELSE Undefined

Low(x) == IF x.t = "bar" THEN x.low ELSE Undefined

Volume(x) == IF x.t = "bar" THEN x.volume ELSE Undefined

\* typeof val === 'number' ? val : val.close
CloseOf(val) == IF IsNumberType(val) THEN val ELSE Close(val)

RECURSIVE Loop(_, _, _, _)
\* for (let i = lo; i < hi; i++) state = step(state, i)
\* The range is run by halves, the first half evaluated before the second,
\* which keeps the depth of the evaluation logarithmic in hi - lo.
Loop(step(_, _), state, lo, hi) ==
  IF hi <= lo THEN state
  ELSE IF hi = lo + 1 THEN step(state, lo)
  ELSE LET mid == (lo + hi) \div 2
           half == Loop(step, state, lo, mid)
       IN  IF half = half THEN Loop(step, half, mid, hi) ELSE half

\* arr.reduce((acc, val) => acc + val, 0)
Sum(arr) == Loop(LAMBDA acc, i : Add(acc, arr[i + 1]), Zero, 0, Len(arr))

\* arr.reduce((acc, val) => acc + (typeof val === 'number' ? val : val.close), 0)
SumClose(arr) ==
  Loop(LAMBDA acc, i : Add(acc, CloseOf(arr[i + 1])), Zero, 0, Len(arr))

-----------------------------------------------------------------------------
(* Default parameters                                                      *)

\* calculateRSI(data, period = 14)
RSI_PERIOD == 14

\* calculateMACD(data, fastPeriod = 12, slowPeriod = 26, signalPeriod = 9)
MACD_FAST == 12

MACD_SLOW == 26

MACD_SIGNAL == 9

\* calculateBollingerBands(data, period = 20, stdDev = 2), bbPeriod, bbStdDev
BB_PERIOD == 20

BB_STDDEV == 2

\* calculateATR(data, period = 14)
ATR_PERIOD == 14

\* calculateTTMSqueeze(..., kcPeriod = 20, kcMultiplier = 1.5)
KC_PERIOD == 20

KC_MULTIPLIER == Rat(3, 2)

\* detectSupportResistance(data, lookback = 20, touchThreshold = 0.02)
SR_LOOKBACK == 20

SR_TOUCH_THRESHOLD == Rat(2, 100)

\* detectDoubleTopBottom(data, lookback = 50, tolerance = 0.03)
DT_LOOKBACK == 50

DT_TOLERANCE == Rat(3, 100)

\* calculateAllIndicators: data.length < 20
MIN_BARS == 20

-----------------------------------------------------------------------------
(* Series Math                                                             *)

\* calculateSMA with the window taken one bar too early
calculateSMA_early(data, period) ==
  [k \in 1..Len(data) |->
     LET i == k - 1
     IN  IF i < period - 1 THEN Null
         ELSE Div(SumClose(Slice(data, i - period, i)), Num(period))]

calculateSMA(data, period) ==
  [k \in 1..Len(data) |->
     LET i == k - 1
     IN  IF i < period - 1 THEN Null
         ELSE Div(SumClose(Slice(data, i - period + 1, i + 1)), Num(period))]

\* emaStep with the two weights exchanged
emaStep_swapped(data, multiplier, result, i) ==
  IF i = 0 THEN Append(result, CloseOf(data[i + 1]))
  ELSE Append(result,
         Add(Mul(CloseOf(data[i + 1]), Sub(Num(1), multiplier)),
             Mul(At(result, i - 1), multiplier)))

\* one iteration of the loop of calculateEMA
emaStep(data, multiplier, result, i) ==
  IF i = 0 THEN Append(result, CloseOf(data[i + 1]))
  ELSE Append(result,
         Add(Mul(CloseOf(data[i + 1]), multiplier),
             Mul(At(result, i - 1), Sub(Num(1), multiplier))))

calculateEMA(data, period) ==
  LET multiplier == Div(Num(2), Num(period + 1))
  IN  Loop(LAMBDA result, i : emaStep(data, multiplier, result, i),
           << >>, 0, Len(data))

-----------------------------------------------------------------------------
(* Indicator Bank                                                          *)

\* rsiChanges with the losses left negative
rsiChanges_signed(data, up) ==
  [k \in 1..(Len(data) - 1) |->
     LET change == Sub(Close(data[k + 1]), Close(data[k]))
     IN  IF up THEN (IF Gt(change, Zero) THEN change ELSE Zero)
         ELSE (IF Lt(change, Zero) THEN change ELSE Zero)]

\* the gains (up = TRUE) or losses of calculateRSI: one entry per bar from
\* index 1 on
rsiChanges(data, up) ==
  [k \in 1..(Len(data) - 1) |->
     LET change == Sub(Close(data[k + 1]), Close(data[k]))
     IN  IF up THEN (IF Gt(change, Zero) THEN change ELSE Zero)
         ELSE (IF Lt(change, Zero) THEN Abs(change) ELSE Zero)]

calculateRSI(data, period) ==
  LET gains == rsiChanges(data, TRUE)
      losses == rsiChanges(data, FALSE)
  IN  [k \in 1..Len(data) |->
         LET i == k - 1
             avgGain == Div(Sum(Slice(gains, i - period, i)), Num(period))
             avgLoss == Div(Sum(Slice(losses, i - period, i)), Num(period))
             rs == Div(avgGain, avgLoss)
         IN  IF i < period THEN Null
             ELSE IF StrictEq(avgLoss, Zero) THEN Num(100)
             ELSE Sub(Num(100), Div(Num(100), Add(Num(1), rs)))]

\* macdLine: fastEMA.map((fast, i) => ...)
macdLineOf(fastEMA, slowEMA) ==
  [k \in 1..Len(fastEMA) |->
     IF StrictEq(fastEMA[k], Null) \/ StrictEq(At(slowEMA, k - 1), Null)
     THEN Null
     ELSE Sub(fastEMA[k], At(slowEMA, k - 1))]

\* macdLine.map(val => ({ close: val || 0 }))
macdDataOf(macdLine) ==
  [k \in 1..Len(macdLine) |->
     Bar(Undefined, Undefined, OrElse(macdLine[k], Zero), Undefined)]

\* macdHistogram with the operands of the subtraction exchanged
macdHistogram_reversed(macdLine, signalLine) ==
  [k \in 1..Len(macdLine) |->
     IF StrictEq(macdLine[k], Null) \/ StrictEq(At(signalLine, k - 1), Null)
     THEN Null
     ELSE Sub(At(signalLine, k - 1), macdLine[k])]

\* histogram: macdLine.map((macd, i) => ...)
macdHistogram(macdLine, signalLine) ==
  [k \in 1..Len(macdLine) |->
     IF StrictEq(macdLine[k], Null) \/ StrictEq(At(signalLine, k - 1), Null)
     THEN Null
     ELSE Sub(macdLine[k], At(signalLine, k - 1))]

\* the object calculateMACD returns
macdResult(macdLine, signalLine) ==
  [macd |-> macdLine, signal |-> signalLine,
   histogram |-> macdHistogram(macdLine, signalLine)]

\* calculateMACD from its macdLine on
macdFromLine(macdLine, signalPeriod) ==
  macdResult(macdLine, calculateEMA(macdDataOf(macdLine), signalPeriod))

calculateMACD(data, fastPeriod, slowPeriod, signalPeriod) ==
  macdFromLine(macdLineOf(calculateEMA(data, fastPeriod),
                          calculateEMA(data, slowPeriod)),
               signalPeriod)

\* slice.reduce((acc, val) => acc + Math.pow(val.close - mean, 2), 0)
SumSquares(slice, mean) ==
  Loop(LAMBDA acc, i : Add(acc, Pow2(Sub(Close(slice[i + 1]), mean))),
       Zero, 0, Len(slice))

\* the entries pushed for a window of mean `mean`
bandsAround(mean, standardDeviation, stdDev) ==
  [upper |-> Add(mean, Mul(standardDeviation, stdDev)),
   middle |-> mean,
   lower |-> Sub(mean, Mul(standardDeviation, stdDev))]

\* the bands of calculateBollingerBands at index i >= period - 1
bollingerAt(data, mean, period, stdDev, i) ==
  bandsAround(mean,
    Sqrt(Div(SumSquares(Slice(data, i - period + 1, i + 1), mean), Num(period))),
    stdDev)

\* the loop of calculateBollingerBands over the moving average sma
bollingerBandsOver(data, sma, period, stdDev) ==
  [upper |-> [k \in 1..Len(data) |->
                IF k - 1 < period - 1 THEN Null
                ELSE bollingerAt(data, At(sma, k - 1), period, stdDev, k - 1).upper],
   middle |-> [k \in 1..Len(data) |->
                IF k - 1 < period - 1 THEN Null ELSE At(sma, k - 1)],
   lower |-> [k \in 1..Len(data) |->
                IF k - 1 < period - 1 THEN Null
                ELSE bollingerAt(data, At(sma, k - 1), period, stdDev, k - 1).lower]]

calculateBollingerBands(data, period, stdDev) ==
  bollingerBandsOver(data, calculateSMA(data, period), period, stdDev)

\* the state of the loop of calculateVWAP after a bar of the given typical
\* price and volume
vwapPush(st, cumulativeVolumePrice, cumulativeVolume) ==
  [cumulativeVolume |-> cumulativeVolume,
   cumulativeVolumePrice |-> cumulativeVolumePrice,
   result |-> Append(st.result, Div(cumulativeVolumePrice, cumulativeVolume))]

vwapAccumulate(st, typicalPrice, volume) ==
  vwapPush(st, Add(st.cumulativeVolumePrice, Mul(typicalPrice, volume)),
               Add(st.cumulativeVolume, volume))

\* vwapStep without the default of 1 for a zero or missing volume
vwapStep_rawVolume(data, st, i) ==
  vwapAccumulate(st,
    Div(Add(Add(High(data[i + 1]), Low(data[i + 1])), Close(data[i + 1])), Num(3)),
    Volume(data[i + 1]))

\* one iteration of the loop of calculateVWAP
vwapStep(data, st, i) ==
  vwapAccumulate(st,
    Div(Add(Add(High(data[i + 1]), Low(data[i + 1])), Close(data[i + 1])), Num(3)),
    OrElse(Volume(data[i + 1]), Num(1)))

calculateVWAP(data) ==
  Loop(LAMBDA st, i : vwapStep(data, st, i),
       [cumulativeVolume |-> Zero, cumulativeVolumePrice |-> Zero, result |-> << >>],
       0, Len(data)).result

\* Math.max(high - low, Math.abs(high - prevClose), Math.abs(low - prevClose))
trueRange(high, low, prevClose) ==
  Max3(Sub(high, low), Abs(Sub(high, prevClose)), Abs(Sub(low, prevClose)))

\* the true ranges of calculateATR: one entry per bar from index 1 on
trueRangesOf(data) ==
  [k \in 1..(Len(data) - 1) |->
     trueRange(High(data[k + 1]), Low(data[k + 1]), Close(data[k]))]

\* the entries calculateATR pushes: one per entry of trueRanges
atrOver(trueRanges, period) ==
  [k \in 1..Len(trueRanges) |->
     IF k >= period
     THEN Div(Sum(Slice(SubSeq(trueRanges, 1, k), -period, k)), Num(period))
     ELSE Null]

\* calculateATR with an entry for the first bar too, aligned with the series
calculateATR_aligned(data, period) ==
  <<Null>> \o atrOver(trueRangesOf(data), period)

\* the loop starts at bar 1 and pushes one entry per iteration
calculateATR(data, period) == atrOver(trueRangesOf(data), period)

\* barColor of calculateTTMSqueeze
squeezeColor(momentum, prev, i) ==
  IF i > 0 /\ Truthy(prev)
  THEN IF Gt(momentum, prev.momentum)
       THEN (IF Gt(momentum, Zero) THEN "lime" ELSE "red")
       ELSE (IF Gt(momentum, Zero) THEN "green" ELSE "maroon")
  ELSE "gray"

\* the object calculateTTMSqueeze pushes for a bar with all four inputs
squeezeEntry(inSqueeze, momentum, kcUpper, kcLower, prev, i) ==
  [t |-> "squeeze", inSqueeze |-> inSqueeze, momentum |-> momentum,
   barColor |-> squeezeColor(momentum, prev, i),
   kcUpper |-> kcUpper, kcLower |-> kcLower]

\* the same, from the Keltner channel kcLower .. kcUpper
squeezeInChannel(close, bbUpper, bbLower, kcUpper, kcLower, prev, i) ==
  squeezeEntry(Gt(bbLower, kcLower) /\ Lt(bbUpper, kcUpper),
               Sub(close, Div(Add(kcUpper, kcLower), Num(2))),
               kcUpper, kcLower, prev, i)

\* the entry calculateTTMSqueeze pushes at index i, after the entry prev
squeezeAt(close, bbUpper, bbLower, ema, atr, kcMultiplier, i, prev) ==
  IF Truthy(bbUpper) /\ Truthy(bbLower) /\ Truthy(ema) /\ Truthy(atr)
  THEN squeezeInChannel(close, bbUpper, bbLower,
                        Add(ema, Mul(kcMultiplier, atr)),
                        Sub(ema, Mul(kcMultiplier, atr)), prev, i)
  ELSE Null

\* the loop of calculateTTMSqueeze over its three indicators
squeezeOver(data, bb, ema, atr, kcMultiplier) ==
  Loop(LAMBDA result, i :
         Append(result,
           squeezeAt(Close(data[i + 1]), At(bb.upper, i), At(bb.lower, i),
                     At(ema, i), At(atr, i), kcMultiplier, i, At(result, i - 1))),
       << >>, 0, Len(data))

calculateTTMSqueeze(data, bbPeriod, bbStdDev, kcPeriod, kcMultiplier) ==
  squeezeOver(data,
              calculateBollingerBands(data, bbPeriod, bbStdDev),
              calculateEMA([k \in 1..Len(data) |-> Close(data[k])], kcPeriod),
              calculateATR(data, kcPeriod),
              kcMultiplier)

-----------------------------------------------------------------------------
(* Pattern/Level Detector                                                  *)

\* isHigh / isPeak after the inner loop over j: no other bar of the window
\* i-lookback .. i+lookback has a high >= the high of bar i
isLocalHigh(data, lookback, i) ==
  \A j \in (i - lookback)..(i + lookback) :
    j # i => ~Ge(High(data[j + 1]), High(data[i + 1]))

\* isLow / isTrough after the inner loop over j
isLocalLow(data, lookback, i) ==
  \A j \in (i - lookback)..(i + lookback) :
    j # i => ~Le(Low(data[j + 1]), Low(data[i + 1]))

\* the list the outer loop builds: for (i = lookback; i < length - lookback; i++)
\* if (isHigh) highs.push({price: data[i].high, index: i, type})
localHighs(data, lookback, type) ==
  Loop(LAMBDA highs, i :
         IF isLocalHigh(data, lookback, i)
         THEN Append(highs, [price |-> High(data[i + 1]), index |-> i, type |-> type])
         ELSE highs,
       << >>, lookback, Len(data) - lookback)

localLows(data, lookback, type) ==
  Loop(LAMBDA lows, i :
         IF isLocalLow(data, lookback, i)
         THEN Append(lows, [price |-> Low(data[i + 1]), index |-> i, type |-> type])
         ELSE lows,
       << >>, lookback, Len(data) - lookback)

\* groupLevel taking the index of the merged candidate as lastTouch
groupLevel_latest(groupedLevels, level, touchThreshold) ==
  LET found == {k \in 1..Len(groupedLevels) :
                  Lt(Div(Abs(Sub(groupedLevels[k].price, level.price)), level.price),
                     touchThreshold)}
      first == CHOOSE k \in found : \A m \in found : k <= m
      existing == groupedLevels[first]
  IN  IF found # {}
      THEN [groupedLevels EXCEPT ![first] =
              [existing EXCEPT !.touches = existing.touches + 1,
                               !.lastTouch = level.index]]
      ELSE Append(groupedLevels,
             [price |-> level.price, type |-> level.type, touches |-> 1,
              lastTouch |-> level.index])

\* one call of the forEach callback that groups similar levels
groupLevel(groupedLevels, level, touchThreshold) ==
  LET found == {k \in 1..Len(groupedLevels) :
                  Lt(Div(Abs(Sub(groupedLevels[k].price, level.price)), level.price),
                     touchThreshold)}
      first == CHOOSE k \in found : \A m \in found : k <= m
      existing == groupedLevels[first]
  IN  IF found # {}
      THEN [groupedLevels EXCEPT ![first] =
              [existing EXCEPT !.touches = existing.touches + 1,
                               !.lastTouch = MaxInt(existing.lastTouch, level.index)]]
      ELSE Append(groupedLevels,
             [price |-> level.price, type |-> level.type, touches |-> 1,
              lastTouch |-> level.index])

\* the forEach that groups similar levels, then the filter on touches
groupedLevelsOf(allLevels, touchThreshold) ==
  SelectSeq(Loop(LAMBDA grouped, k : groupLevel(grouped, allLevels[k + 1], touchThreshold),
                 << >>, 0, Len(allLevels)),
            LAMBDA level : level.touches >= 2)

detectSupportResistance(data, lookback, touchThreshold) ==
  groupedLevelsOf(localHighs(data, lookback, "resistance")
                    \o localLows(data, lookback, "support"),
                  touchThreshold)

\* isDoublePair measuring the gap from the second extremum to the first
isDoublePair_swapped(first, second, tolerance) ==
  /\ Lt(Div(Abs(Sub(first.price, second.price)), first.price), tolerance)
  /\ first.index - second.index > 10

\* the test of a pair of peaks (or troughs) of detectDoubleTopBottom
isDoublePair(first, second, tolerance) ==
  /\ Lt(Div(Abs(Sub(first.price, second.price)), first.price), tolerance)
  /\ second.index - first.index > 10

\* the two nested loops over the pairs i < j of extrema
doublePatterns(extrema, tolerance, type, signal) ==
  Loop(LAMBDA outer, i :
         Loop(LAMBDA patterns, j :
                IF isDoublePair(extrema[i + 1], extrema[j + 1], tolerance)
                THEN Append(patterns,
                       [type |-> type,
                        price |-> Div(Add(extrema[i + 1].price, extrema[j + 1].price),
                                      Num(2)),
                        startIndex |-> extrema[i + 1].index,
                        endIndex |-> extrema[j + 1].index,
                        signal |-> signal])
                ELSE patterns,
              outer, i + 1, Len(extrema)),
       << >>, 0, Len(extrema) - 1)

detectDoubleTopBottom(data, lookback, tolerance) ==
  LET peaks == localHighs(data, lookback, "peak")
      troughs == localLows(data, lookback, "trough")
  IN  doublePatterns(peaks, tolerance, "Double Top", "BEARISH")
        \o doublePatterns(troughs, tolerance, "Double Bottom", "BULLISH")

-----------------------------------------------------------------------------
(* Signal Generator                                                        *)
(* The indicator set is a record; an indicator that is absent is           *)
(* Undefined. A signal is [type, signal, confidence]: its value and        *)
(* description strings are display text and are left out. A rule that sets *)
(* no confidence property leaves the confidence "undefined".               *)

\* x is an array or an object of sequences (always truthy), not Undefined
Present(x) == x # Undefined

Signal(type, signal, confidence) ==
  [type |-> type, signal |-> signal, confidence |-> confidence]

\* 1. the RSI rule
rsiSignals(indicators, latestIndex) ==
  LET rsi == At(indicators.rsi, latestIndex)
      macd == At(indicators.macd.macd, latestIndex)
      macdSignal == At(indicators.macd.signal, latestIndex)
      prevMacd == At(indicators.macd.macd, latestIndex - 1)
  IN  IF Present(indicators.rsi) /\ Truthy(At(indicators.rsi, latestIndex))
         /\ Present(indicators.macd)
      THEN IF Gt(rsi, Num(70))
           THEN <<Signal("RSI Overbought", "BEARISH",
                    IF Truthy(macd) /\ Truthy(prevMacd) /\ Lt(macd, prevMacd)
                    THEN "HIGH" ELSE "MEDIUM")>>
           ELSE IF Lt(rsi, Num(30))
           THEN <<Signal("RSI Oversold", "BULLISH",
                    IF Truthy(macd) /\ Truthy(macdSignal) /\ Gt(macd, macdSignal)
                    THEN "HIGH" ELSE "MEDIUM")>>
           ELSE IF Gt(rsi, Num(50))
           THEN <<Signal("RSI Bullish Zone", "BULLISH", "LOW")>>
           ELSE <<Signal("RSI Bearish Zone", "BEARISH", "LOW")>>
      ELSE << >>

\* 2. the MACD rule
macdSignals(indicators, latestIndex) ==
  LET macd == At(indicators.macd.macd, latestIndex)
      signal == At(indicators.macd.signal, latestIndex)
      prevMacd == At(indicators.macd.macd, latestIndex - 1)
      prevSignal == At(indicators.macd.signal, latestIndex - 1)
      prev2Macd == At(indicators.macd.macd, latestIndex - 2)
      macdMomentum == Sub(macd, prevMacd)
      prevMomentum == Sub(prevMacd, prev2Macd)
  IN  IF Present(indicators.macd) /\ Truthy(At(indicators.macd.macd, latestIndex))
         /\ Truthy(At(indicators.macd.signal, latestIndex))
         /\ Truthy(prevMacd) /\ Truthy(prevSignal)
      THEN IF Le(prevMacd, prevSignal) /\ Gt(macd, signal)
           THEN <<Signal("MACD Bullish Crossover", "BULLISH", "HIGH")>>
           ELSE IF Ge(prevMacd, prevSignal) /\ Lt(macd, signal)
           THEN <<Signal("MACD Bearish Crossover", "BEARISH", "HIGH")>>
           ELSE IF Truthy(prev2Macd) /\ Gt(macd, signal)
                   /\ Gt(prevMomentum, Zero)
                   /\ Lt(macdMomentum, Mul(prevMomentum, Rat(1, 2)))
           THEN <<Signal("MACD Momentum Weakening", "CAUTION", "MEDIUM")>>
           ELSE << >>
      ELSE << >>

\* the Bollinger Bands rule: its two signals have no confidence property
bollingerSignals(indicators, latestIndex, latest) ==
  LET price == Close(latest)
      upper == At(indicators.bb.upper, latestIndex)
      lower == At(indicators.bb.lower, latestIndex)
  IN  IF Present(indicators.bb) /\ Truthy(At(indicators.bb.upper, latestIndex))
         /\ Truthy(At(indicators.bb.lower, latestIndex))
      THEN IF Ge(price, upper)
           THEN <<Signal("Bollinger Upper Band", "BEARISH", "undefined")>>
           ELSE IF Le(price, lower)
           THEN <<Signal("Bollinger Lower Band", "BULLISH", "undefined")>>
           ELSE << >>
      ELSE << >>

\* the perfect-alignment test of the EMA block
emaStackSignals(price, ema9, ema20, ema50) ==
  IF Gt(price, ema9) /\ Gt(ema9, ema20) /\ Gt(ema20, ema50)
  THEN <<Signal("EMA Perfect Bullish Stack", "BULLISH", "HIGH")>>
  ELSE IF Lt(price, ema9) /\ Lt(ema9, ema20) /\ Lt(ema20, ema50)
  THEN <<Signal("EMA Perfect Bearish Stack", "BEARISH", "HIGH")>>
  ELSE << >>

\* recentCross after the loop for (i = 1; i <= Math.min(5, latestIndex); i++)
\* of a golden cross (golden = TRUE) or of a death cross
recentCross(indicators, latestIndex, golden) ==
  \E i \in 1..MinInt(5, latestIndex) :
    LET checkEma9 == At(indicators.ema9, latestIndex - i)
        checkEma20 == At(indicators.ema20, latestIndex - i)
    IN  IF golden THEN Le(checkEma9, checkEma20) ELSE Ge(checkEma9, checkEma20)

\* the Golden Cross / Death Cross test of the EMA block
emaCrossSignals(indicators, latestIndex) ==
  LET ema9 == At(indicators.ema9, latestIndex)
      ema20 == At(indicators.ema20, latestIndex)
      prevEma9 == At(indicators.ema9, latestIndex - 1)
      prevEma20 == At(indicators.ema20, latestIndex - 1)
  IN  IF Truthy(prevEma9) /\ Truthy(prevEma20)
      THEN IF Le(prevEma9, prevEma20) /\ Gt(ema9, ema20)
           THEN IF recentCross(indicators, latestIndex, TRUE)
                THEN <<Signal("Golden Cross (Recent)", "BULLISH", "HIGH")>>
                ELSE <<Signal("Golden Cross Active", "BULLISH", "MEDIUM")>>
           ELSE IF Ge(prevEma9, prevEma20) /\ Lt(ema9, ema20)
           THEN IF recentCross(indicators, latestIndex, FALSE)
                THEN <<Signal("Death Cross (Recent)", "BEARISH", "HIGH")>>
                ELSE <<Signal("Death Cross Active", "BEARISH", "MEDIUM")>>
           ELSE << >>
      ELSE << >>

\* 4. the VWAP zone analysis, nested in the EMA block
vwapSignals(indicators, latestIndex, price) ==
  LET vwap == At(indicators.vwap, latestIndex)
      vwapDistance == Mul(Div(Sub(price, vwap), vwap), Num(100))
  IN  IF Present(indicators.vwap) /\ Truthy(At(indicators.vwap, latestIndex))
      THEN IF Gt(vwapDistance, Num(2))
           THEN <<Signal("VWAP Upper Zone", "CAUTION", "MEDIUM")>>
           ELSE IF Gt(vwapDistance, Zero)
           THEN <<Signal("VWAP Bullish Zone", "BULLISH", "MEDIUM")>>
           ELSE IF Gt(vwapDistance, Num(-2))
           THEN <<Signal("VWAP Support Zone", "NEUTRAL", "LOW")>>
           ELSE <<Signal("VWAP Bounce Opportunity", "BULLISH", "HIGH")>>
      ELSE << >>

\* 3. the EMA block: stack, cross, and the VWAP rule inside it
emaBlockSignals(indicators, latestIndex, price) ==
  IF Present(indicators.ema9) /\ Present(indicators.ema20) /\ Present(indicators.ema50)
  THEN emaStackSignals(price, At(indicators.ema9, latestIndex),
                       At(indicators.ema20, latestIndex),
                       At(indicators.ema50, latestIndex))
         \o emaCrossSignals(indicators, latestIndex)
         \o vwapSignals(indicators, latestIndex, price)
  ELSE << >>

\* 5. the TTM Squeeze rule
ttmSignals(indicators, latestIndex) ==
  LET squeeze == At(indicators.ttmSqueeze, latestIndex)
      prevSqueeze == At(indicators.ttmSqueeze, latestIndex - 1)
      breakoutDirection == IF Gt(squeeze.momentum, Zero) THEN "BULLISH" ELSE "BEARISH"
  IN  IF Present(indicators.ttmSqueeze) /\ Truthy(At(indicators.ttmSqueeze, latestIndex))
      THEN (IF squeeze.inSqueeze
            THEN <<Signal("TTM Squeeze Active", "NEUTRAL", "HIGH")>>
            ELSE IF Truthy(prevSqueeze) /\ prevSqueeze.inSqueeze
            THEN <<Signal("TTM Squeeze Breakout", breakoutDirection, "HIGH")>>
            ELSE << >>)
           \o (IF squeeze.barColor = "lime"
               THEN <<Signal("TTM Green Bar", "BULLISH", "HIGH")>>
               ELSE IF squeeze.barColor = "red"
               THEN <<Signal("TTM Red Bar", "BEARISH", "HIGH")>>
               ELSE << >>)
      ELSE << >>

\* 6. the support/resistance rule: one callback per level
levelSignals(indicators, latest) ==
  LET currentPrice == Close(latest)
      levels == indicators.supportResistance
  IN  IF Present(levels) /\ Len(levels) > 0
      THEN Loop(LAMBDA signals, k :
                  LET level == levels[k + 1]
                      distance == Div(Abs(Sub(currentPrice, level.price)), level.price)
                  IN  IF Lt(distance, Rat(1, 100))
                      THEN Append(signals,
                             IF level.type = "support"
                             THEN Signal("At Support Level", "BULLISH",
                                    IF level.touches >= 3 THEN "HIGH" ELSE "MEDIUM")
                             ELSE Signal("At Resistance Level", "BEARISH",
                                    IF level.touches >= 3 THEN "HIGH" ELSE "MEDIUM"))
                      ELSE signals,
                << >>, 0, Len(levels))
      ELSE << >>

\* the pattern rule accepting patterns that ended within the last 60 bars
patternSignals_wide(indicators, latestIndex) ==
  LET patterns == indicators.patterns
      recentPatterns ==
        SelectSeq(patterns, LAMBDA pattern : latestIndex - pattern.endIndex < 60)
  IN  IF Present(patterns) /\ Len(patterns) > 0
      THEN [k \in 1..Len(recentPatterns) |->
              Signal(recentPatterns[k].type, recentPatterns[k].signal, "HIGH")]
      ELSE << >>

\* 7. the pattern rule
patternSignals(indicators, latestIndex) ==
  LET patterns == indicators.patterns
      recentPatterns ==
        SelectSeq(patterns, LAMBDA pattern : latestIndex - pattern.endIndex < 20)
  IN  IF Present(patterns) /\ Len(patterns) > 0
      THEN [k \in 1..Len(recentPatterns) |->
              Signal(recentPatterns[k].type, recentPatterns[k].signal, "HIGH")]
      ELSE << >>

\* generateSignals with the TTM Squeeze rule evaluated before the EMA block
generateSignals_ttmFirst(data, indicators) ==
  LET latest == data[Len(data)]
      latestIndex == Len(data) - 1
      price == Close(latest)
  IN  rsiSignals(indicators, latestIndex)
        \o macdSignals(indicators, latestIndex)
        \o bollingerSignals(indicators, latestIndex, latest)
        \o ttmSignals(indicators, latestIndex)
        \o emaBlockSignals(indicators, latestIndex, price)
        \o levelSignals(indicators, latest)
        \o patternSignals(indicators, latestIndex)

\* data is not empty
generateSignals(data, indicators) ==
  LET latest == data[Len(data)]
      latestIndex == Len(data) - 1
      price == Close(latest)
  IN  rsiSignals(indicators, latestIndex)
        \o macdSignals(indicators, latestIndex)
        \o bollingerSignals(indicators, latestIndex, latest)
        \o emaBlockSignals(indicators, latestIndex, price)
        \o ttmSignals(indicators, latestIndex)
        \o levelSignals(indicators, latest)
        \o patternSignals(indicators, latestIndex)

\* the indicators object of calculateAllIndicators, built with the default
\* parameters of each function
allIndicators(data) ==
  LET closePrices == [k \in 1..Len(data) |-> Close(data[k])]
  IN  [sma20 |-> calculateSMA(closePrices, 20),
       ema9 |-> calculateEMA(closePrices, 9),
       ema20 |-> calculateEMA(closePrices, 20),
       ema50 |-> calculateEMA(closePrices, 50),
       rsi |-> calculateRSI(closePrices, RSI_PERIOD),
       macd |-> calculateMACD(closePrices, MACD_FAST, MACD_SLOW, MACD_SIGNAL),
       bb |-> calculateBollingerBands(data, BB_PERIOD, Num(BB_STDDEV)),
       vwap |-> calculateVWAP(data),
       atr |-> calculateATR(data, ATR_PERIOD),
       ttmSqueeze |->
         calculateTTMSqueeze(data, BB_PERIOD, Num(BB_STDDEV), KC_PERIOD, KC_MULTIPLIER),
       supportResistance |->
         detectSupportResistance(data, SR_LOOKBACK, SR_TOUCH_THRESHOLD),
       patterns |-> detectDoubleTopBottom(data, DT_LOOKBACK, DT_TOLERANCE)]

\* {}: the object with no property, every property of which reads undefined
EmptyObject ==
  [sma20 |-> Undefined, ema9 |-> Undefined, ema20 |-> Undefined,
   ema50 |-> Undefined, rsi |-> Undefined, macd |-> Undefined,
   bb |-> Undefined, vwap |-> Undefined, atr |-> Undefined,
   ttmSqueeze |-> Undefined, supportResistance |-> Undefined,
   patterns |-> Undefined]

\* the object calculateAllIndicators returns for a series of 20 bars or more
frameOf(data, indicators) ==
  [indicators |-> indicators, signals |-> generateSignals(data, indicators)]

\* data is an array
calculateAllIndicators(data) ==
  IF Len(data) < MIN_BARS
  THEN [indicators |-> EmptyObject, signals |-> << >>]
  ELSE frameOf(data, allIndicators(data))

-----------------------------------------------------------------------------
(* Strength Aggregator                                                     *)
(* A signal is [type, signal, confidence]; a rule that sets no confidence  *)
(* leaves it "undefined". The value and description strings of a signal    *)
(* and of the verdict are display text and are left out.                   *)

\* signalWeight with MEDIUM weighted like LOW
signalWeight_flat(signal) ==
  IF signal.confidence = "HIGH" THEN 3 ELSE 1

\* signal.confidence === 'HIGH' ? 3 : signal.confidence === 'MEDIUM' ? 2 : 1
signalWeight(signal) ==
  IF signal.confidence = "HIGH" THEN 3
  ELSE IF signal.confidence = "MEDIUM" THEN 2 ELSE 1

NoTally ==
  [bullishCount |-> 0, bearishCount |-> 0, highConfidenceCount |-> 0,
   totalWeight |-> 0]

\* one step of the forEach of calculateSignalStrength
tallySignal(acc, signal) ==
  LET weight == signalWeight(signal)
  IN  [bullishCount |->
         IF signal.signal = "BULLISH" THEN acc.bullishCount + weight
         ELSE acc.bullishCount,
       bearishCount |->
         IF signal.signal = "BEARISH" THEN acc.bearishCount + weight
         ELSE acc.bearishCount,
       highConfidenceCount |->
         IF signal.confidence = "HIGH" THEN acc.highConfidenceCount + 1
         ELSE acc.highConfidenceCount,
       totalWeight |-> acc.totalWeight + weight]

\* strengthTier with the confirmations-only thresholds 7, 4 and 2 tested for
\* equality
strengthTier_exact(confirmationCount, highConfidenceCount, netScore) ==
  IF (confirmationCount >= 5 /\ highConfidenceCount >= 2) \/ confirmationCount = 7
  THEN [strength |-> IF netScore > 0 THEN "STRONG BUY" ELSE "STRONG SELL",
        color |-> IF netScore > 0 THEN "green" ELSE "red"]
  ELSE IF (confirmationCount >= 3 /\ highConfidenceCount >= 1) \/ confirmationCount = 4
  THEN [strength |-> IF netScore > 0 THEN "MODERATE BUY" ELSE "MODERATE SELL",
        color |-> IF netScore > 0 THEN "green" ELSE "red"]
  ELSE IF confirmationCount = 2 /\ AbsInt(netScore) >= 2
  THEN [strength |-> IF netScore > 0 THEN "WEAK BUY" ELSE "WEAK SELL",
        color |-> IF netScore > 0 THEN "green" ELSE "red"]
  ELSE [strength |-> "WAIT", color |-> "yellow"]

\* strengthTier with the WEAK tier no longer asking for |netScore| >= 2
strengthTier_noNet(confirmationCount, highConfidenceCount, netScore) ==
  IF (confirmationCount >= 5 /\ highConfidenceCount >= 2) \/ confirmationCount >= 7
  THEN [strength |-> IF netScore > 0 THEN "STRONG BUY" ELSE "STRONG SELL",
        color |-> IF netScore > 0 THEN "green" ELSE "red"]
  ELSE IF (confirmationCount >= 3 /\ highConfidenceCount >= 1) \/ confirmationCount >= 4
  THEN [strength |-> IF netScore > 0 THEN "MODERATE BUY" ELSE "MODERATE SELL",
        color |-> IF netScore > 0 THEN "green" ELSE "red"]
  ELSE IF confirmationCount >= 2
  THEN [strength |-> IF netScore > 0 THEN "WEAK BUY" ELSE "WEAK SELL",
        color |-> IF netScore > 0 THEN "green" ELSE "red"]
  ELSE [strength |-> "WAIT", color |-> "yellow"]

\* the tier chain of calculateSignalStrength
strengthTier(confirmationCount, highConfidenceCount, netScore) ==
  IF (confirmationCount >= 5 /\ highConfidenceCount >= 2) \/ confirmationCount >= 7
  THEN [strength |-> IF netScore > 0 THEN "STRONG BUY" ELSE "STRONG SELL",
        color |-> IF netScore > 0 THEN "green" ELSE "red"]
  ELSE IF (confirmationCount >= 3 /\ highConfidenceCount >= 1) \/ confirmationCount >= 4
  THEN [strength |-> IF netScore > 0 THEN "MODERATE BUY" ELSE "MODERATE SELL",
        color |-> IF netScore > 0 THEN "green" ELSE "red"]
  ELSE IF confirmationCount >= 2 /\ AbsInt(netScore) >= 2
  THEN [strength |-> IF netScore > 0 THEN "WEAK BUY" ELSE "WEAK SELL",
        color |-> IF netScore > 0 THEN "green" ELSE "red"]
  ELSE [strength |-> "WAIT", color |-> "yellow"]

calculateSignalStrength(signals) ==
  LET tally == Loop(LAMBDA acc, i : tallySignal(acc, signals[i + 1]), NoTally, 0, Len(signals))
      netScore == tally.bullishCount - tally.bearishCount
      confirmationCount == MaxInt(tally.bullishCount, tally.bearishCount)
      tier == strengthTier(confirmationCount, tally.highConfidenceCount, netScore)
  IN  [strength |-> tier.strength,
       color |-> tier.color,
       bullishCount |-> tally.bullishCount,
       bearishCount |-> tally.bearishCount,
       highConfidenceCount |-> tally.highConfidenceCount,
       netScore |-> AbsInt(netScore),
       totalSignals |-> Len(signals)]

-----------------------------------------------------------------------------
(* Live Prices Hook                                                        *)
(* The state of one useLivePrices instance: its effects (one per value of  *)
(* symbols, the latest being the current one), the WebSockets it created,  *)
(* the timers its onclose handlers set, and its two refs. A socket and a   *)
(* timer belong to the effect whose connect created them: their handlers   *)
(* close over that effect's symbols and connect.                           *)

\* no hook is rendered
NoHook == [phase |-> "none"]

\* the hook after its first render with symbols empty or not, before its
\* effect has run: useState and useRef initial values
renderedHook(hasSymbols) ==
  [phase |-> "rendered",
   symbols |-> <<hasSymbols>>,
   sockets |-> << >>,
   timers |-> << >>,
   wsRef |-> 0,
   reconnectTimeoutRef |-> 0,
   connectionStatus |-> "disconnected"]

\* connect of the given effect: new WebSocket(wsUrl); wsRef.current = ws
connect(h, effect) ==
  IF ~h.symbols[effect]
  THEN [h EXCEPT !.connectionStatus = "idle"]
  ELSE [h EXCEPT !.sockets = Append(@, [state |-> "connecting", owner |-> effect]),
                 !.wsRef = Len(h.sockets) + 1]

\* if (wsRef.current) wsRef.current.close(): a socket that is connecting or
\* open starts closing, its close event comes later
closeCurrent(h) ==
  IF h.wsRef # 0 /\ h.sockets[h.wsRef].state \in {"connecting", "open"}
  THEN [h EXCEPT !.sockets[h.wsRef].state = "closing"]
  ELSE h

\* if (reconnectTimeoutRef.current) clearTimeout(reconnectTimeoutRef.current)
clearReconnectTimeout(h) ==
  IF h.reconnectTimeoutRef # 0
  THEN [h EXCEPT !.timers[h.reconnectTimeoutRef].pending = FALSE]
  ELSE h

\* the cleanup the effect returns
cleanup(h) == closeCurrent(clearReconnectTimeout(h))

\* ws.onopen of socket s
onopen(h, s) ==
  [h EXCEPT !.sockets[s].state = "open", !.connectionStatus = "connected"]

\* ws.onerror of socket s; the connection is lost and its close event follows
onerror(h, s) ==
  [h EXCEPT !.sockets[s].state = "closing", !.connectionStatus = "error"]

\* ws.onclose of socket s: the timer is set whatever became of the effect
onclose(h, s) ==
  [h EXCEPT !.sockets[s].state = "closed",
            !.connectionStatus = "disconnected",
            !.timers = Append(@, [pending |-> TRUE, owner |-> h.sockets[s].owner]),
            !.reconnectTimeoutRef = Len(h.timers) + 1]

\* the callback of timer t: if (symbols.length > 0) connect()
reconnectTimeout(h, t) ==
  LET fired == [h EXCEPT !.timers[t].pending = FALSE]
  IN  IF h.symbols[h.timers[t].owner]
      THEN connect(fired, h.timers[t].owner)
      ELSE fired

\* the reconnect the hook returns, of the current effect
reconnect(h) == connect(closeCurrent(h), Len(h.symbols))

-----------------------------------------------------------------------------
(* Dashboard                                                               *)
(* The part of the state of EnhancedDashboard that loadData writes after   *)
(* its technical-analysis step: activeSignals and signalStrength, and the  *)
(* number of loadData runs started and still waiting for the backend.      *)

\* no dashboard is rendered
NoDashboard == [phase |-> "none"]

\* useState([]) for activeSignals, useState(null) for signalStrength
renderedDashboard ==
  [phase |-> "rendered", activeSignals |-> << >>, signalStrength |-> Null,
   started |-> 0, waiting |-> 0]

\* setActiveSignals(signals); if (signals && signals.length > 0)
\* setSignalStrength(calculateSignalStrength(signals))
showSignals(d, signals) ==
  [d EXCEPT !.activeSignals = signals,
            !.signalStrength = IF Len(signals) > 0
                               THEN calculateSignalStrength(signals)
                               ELSE @]

-----------------------------------------------------------------------------
(* Bounds of the checked inputs                                            *)

\* the sequences of at most n elements of S
SeqsUpTo(S, n) == UNION {[1..k -> S] : k \in 0..n}

\* longest value sequence given to calculateSMA and calculateEMA
MaxLen == 3

\* largest period given to calculateSMA and calculateEMA
MaxPeriod == 4

\* how many invalid periods 0, -1, ... are given to them
InvalidPeriods == 2

\* the values of the sequences given to calculateSMA and calculateEMA
SampleValues == {Num(-3), Num(0), Rat(1, 2), Num(5)}

\* longest signal list given to calculateSignalStrength
MaxSignals == 3

Directions == {"BULLISH", "BEARISH", "NEUTRAL", "CAUTION"}

Confidences == {"HIGH", "MEDIUM", "LOW"}

\* the signals a list may hold: the type label is free-form and is not read
\* by calculateSignalStrength
SampleSignals ==
  [type : {"Signal"}, signal : Directions, confidence : Confidences \cup {"undefined"}]

\* longest first and second signal list of a pair of calls of
\* calculateSignalStrength
MaxFirstSignals == 2

MaxSecondSignals == 3

\* the signals of those lists: the directions that weigh, each confidence
PairSignals ==
  [type : {"Signal"}, signal : {"BULLISH", "BEARISH"}, confidence : Confidences]

\* longest series given to calculateAllIndicators
MaxBars == 22

\* a well-formed bar: low <= close <= high, volume a non-negative integer
BaseBar == Bar(Num(11), Num(9), Num(10), Num(1000))

\* the bars the last two bars of a series are drawn from: flat, up, down on
\* no volume, and a wide up bar
TailBars ==
  {BaseBar,
   Bar(Num(12), Num(10), Num(11), Num(1000)),
   Bar(Num(10), Num(7), Num(8), Num(0)),
   Bar(Num(14), Num(9), Num(13), Num(500))}

\* the series given to calculateAllIndicators: BaseBar throughout, then two
\* bars of TailBars. The closes move in the last two bars only, which keeps
\* the exact moving averages within TLC's integers.
SampleSeries ==
  {[k \in 1..n |-> IF k = n THEN last ELSE IF k = n - 1 THEN prev ELSE BaseBar] :
     n \in 1..MaxBars, prev \in TailBars, last \in TailBars}

\* longest series given to calculateRSI
MaxRsiLen == 4

\* largest period given to calculateRSI
MaxRsiPeriod == 3

\* the closes of the bars given to calculateRSI
RsiCloses == {8, 10, 11}

\* the bars given to calculateRSI
RsiBars == {Bar(Num(c + 1), Num(c - 1), Num(c), Num(1000)) : c \in RsiCloses}

\* longest close series given to calculateMACD with small periods
MaxMacdLen == 4

\* longest close series given to calculateMACD with its default periods
MaxMacdBars == 5

\* the closes given to calculateMACD
MacdCloses == {Num(8), Num(10), Num(11)}

\* the period triples given to calculateMACD besides the default one
SmallPeriods ==
  {[fastPeriod |-> 1, slowPeriod |-> 3, signalPeriod |-> 3],
   [fastPeriod |-> 3, slowPeriod |-> 7, signalPeriod |-> 1]}

\* the calls of calculateMACD: any short close series with small periods,
\* and series flat at 10 up to their last two closes with the default
\* periods, which keeps the exact averages within TLC's integers
SampleMacdCalls ==
  {[data |-> d, fastPeriod |-> p.fastPeriod, slowPeriod |-> p.slowPeriod,
    signalPeriod |-> p.signalPeriod] :
     d \in SeqsUpTo(MacdCloses, MaxMacdLen), p \in SmallPeriods}
  \cup
  {[data |-> [k \in 1..n |-> IF k = n THEN last ELSE IF k = n - 1 THEN prev ELSE Num(10)],
    fastPeriod |-> MACD_FAST, slowPeriod |-> MACD_SLOW, signalPeriod |-> MACD_SIGNAL] :
     n \in 1..MaxMacdBars, prev \in MacdCloses, last \in MacdCloses}

\* longest series given to calculateVWAP
MaxVwapBars == 3

\* the bars given to calculateVWAP: well-formed ones, one without volume
\* traded, and malformed ones (negative volume, volume missing, high and low
\* missing)
VwapBars ==
  {BaseBar,
   Bar(Num(13), Num(10), Num(13), Num(0)),
   Bar(Num(50), Num(50), Num(50), Num(0)),
   Bar(Num(13), Num(10), Num(13), Num(-1000)),
   Bar(Num(8), Num(6), Num(7), Undefined),
   Bar(Undefined, Undefined, Num(10), Num(500))}

\* length of the series given to detectDoubleTopBottom: with the default
\* lookback of 50, bars 50 .. PatternBars - 51 can be peaks
PatternBars == 156

\* the highs of the bars that stand out of the flat series, 11 standing for
\* no bump
BumpHighs == {11, 100, 103, 104}

\* a flat series with the highs of bars posA and posB raised to highA and
\* highB, and the low of bar posL lowered to lowL
BumpSeries(posA, highA, posB, highB, posL, lowL) ==
  [k \in 1..PatternBars |->
     Bar(Num(IF k - 1 = posA THEN highA ELSE IF k - 1 = posB THEN highB ELSE 11),
         Num(IF k - 1 = posL THEN lowL ELSE 9),
         Num(10), Num(1000))]

\* the series given to detectDoubleTopBottom: bump A before the candidate
\* range, at its first bar or inside it; bump B less than 50 bars after A,
\* more than 50 bars after A, or behind the candidate range
SamplePatternSeries ==
  {BumpSeries(posA, highA, posB, highB, 70, lowL) :
     posA \in {40, 50, 52}, highA \in BumpHighs,
     posB \in {95, 103, 105, 110}, highB \in BumpHighs,
     lowL \in {9, 5}}

\* longest series whose indicators are given to generateSignals
MaxSignalBars == 16

\* the series generateSignals is called with: long enough for calculateRSI
\* to give a value at the latest index
SignalSeries ==
  {data \in SampleSeries : Len(data) \in (RSI_PERIOD + 1)..MaxSignalBars}

\* the properties a caller of generateSignals may leave out
OptionalIndicators == {"ema9", "ema20", "ema50", "macd"}

\* the indicators object without the properties in absent
Without(indicators, absent) ==
  [p \in DOMAIN indicators |->
     IF p \in absent THEN Undefined ELSE indicators[p]]

\* longest series whose rules are evaluated one by one
MaxRuleBars == 21

\* a well-formed bar around 100
RuleBaseBar == Bar(Num(110), Num(90), Num(100), Num(1000))

\* the bars the last two bars of a rule series are drawn from: closes 1%
\* above, 2% below (with the typical price of the base bar), 3% above and
\* 3% below the base close
RuleTailBars ==
  {RuleBaseBar,
   Bar(Num(102), Num(100), Num(101), Num(1000)),
   Bar(Num(106), Num(96), Num(98), Num(1000)),
   Bar(Num(104), Num(99), Num(103), Num(500)),
   Bar(Num(100), Num(95), Num(97), Num(1000))}

\* the series the rules of generateSignals are evaluated on: RuleBaseBar
\* throughout, then two bars of RuleTailBars
RuleSeries ==
  {[k \in 1..n |->
      IF k = n THEN last ELSE IF k = n - 1 THEN prev ELSE RuleBaseBar] :
     n \in MIN_BARS..MaxRuleBars, prev \in RuleTailBars, last \in RuleTailBars}

\* the indicator sets of a series: the one calculateAllIndicators builds,
\* where calculateRSI is given the close prices, and the one with
\* calculateRSI given the bars themselves
RuleIndicatorSets(data) ==
  {allIndicators(data),
   [allIndicators(data) EXCEPT !.rsi = calculateRSI(data, RSI_PERIOD)]}

\* longest series whose signals are checked for their order
MaxOrderBars == 20

OrderSeries == {data \in RuleSeries : Len(data) <= MaxOrderBars}

\* TTM Squeeze arrays of n entries with values at the last two indices, of
\* the shape calculateTTMSqueeze gives: none, a squeeze that goes on, and a
\* squeeze that ends on the latest bar
SampleSqueezes(n) ==
  LET first == squeezeEntry(TRUE, Num(-1), Num(105), Num(95), Null, n - 2)
      tail(inSqueeze, momentum) ==
        [k \in 1..n |->
           IF k = n
           THEN squeezeEntry(inSqueeze, momentum, Num(105), Num(95), first, n - 1)
           ELSE IF k = n - 1 THEN first ELSE Null]
  IN  {[k \in 1..n |-> Null], tail(TRUE, Num(1)), tail(FALSE, Num(-2))}

\* lists of levels of the shape detectSupportResistance gives, near 100
SampleLevels ==
  {<< >>,
   <<[price |-> Num(110), type |-> "resistance", touches |-> 2, lastTouch |-> 9]>>,
   <<[price |-> Rat(201, 2), type |-> "resistance", touches |-> 2, lastTouch |-> 9],
     [price |-> Num(100), type |-> "support", touches |-> 3, lastTouch |-> 12]>>}

\* lists of patterns of the shape detectDoubleTopBottom gives
SampleDoublePatterns ==
  {<< >>,
   <<[type |-> "Double Top", price |-> Num(110), startIndex |-> 2,
      endIndex |-> 14, signal |-> "BEARISH"],
     [type |-> "Double Bottom", price |-> Num(90), startIndex |-> 3,
      endIndex |-> 15, signal |-> "BULLISH"]>>}

\* longest series given to detectSupportResistance
MaxLevelBars == 6

\* largest lookback given to detectSupportResistance
MaxLevelLookback == 2

\* the bars given to detectSupportResistance: two narrow bars one step
\* apart, a bar reaching 1.5% higher and a wide bar
LevelBars ==
  {Bar(Num(200), Num(199), Num(199), Num(1000)),
   Bar(Num(201), Num(200), Num(200), Num(1000)),
   Bar(Num(204), Num(198), Num(200), Num(1000)),
   Bar(Num(210), Num(190), Num(200), Num(1000))}

\* most WebSockets one hook creates
MaxSockets == 3

\* most effects of one hook: the first and those after a change of symbols
MaxEffects == 2

\* most reconnect timers the onclose handlers of one hook set
MaxTimers == 3

\* most loadData runs of one dashboard
MaxLoads == 4

\* the signal lists the technical-analysis endpoint answers with
BackendSignalLists ==
  {<< >>,
   <<Signal("RSI Oversold", "BULLISH", "HIGH")>>,
   <<Signal("VWAP Support Zone", "NEUTRAL", "LOW")>>,
   <<Signal("RSI Overbought", "BEARISH", "MEDIUM"),
     Signal("MACD Bearish Crossover", "BEARISH", "HIGH")>>,
   <<Signal("RSI Bullish Zone", "BULLISH", "LOW"),
     Signal("VWAP Upper Zone", "CAUTION", "MEDIUM")>>,
   <<Signal("EMA Perfect Bullish Stack", "BULLISH", "HIGH"),
     Signal("Golden Cross (Recent)", "BULLISH", "HIGH"),
     Signal("VWAP Bullish Zone", "BULLISH", "MEDIUM")>>}

\* the chart series of the frontend fallback: one too short for a frame,
\* a flat one and two that move on their last bars
ChartSeries ==
  {data \in SampleSeries :
     /\ Len(data) \in {MIN_BARS - 1, MIN_BARS}
     /\ data[Len(data) - 1] = BaseBar
     /\ Len(data) = MIN_BARS - 1 => data[Len(data)] = BaseBar}

NoArgs == [data |-> << >>, period |-> 0]

NoResult == [status |-> "none", value |-> Null]

\* a call that returned value (none of the modelled functions has a throw
\* statement, and none dereferences a missing element on the inputs drawn)
Returned(value) == [status |-> "returned", value |-> value]

-----------------------------------------------------------------------------
(* SpecSeries: calculateSMA and calculateEMA on number sequences           *)

InitSeries ==
  /\ pc = "ready"
  /\ fn = "none"
  /\ args \in [data : SeqsUpTo(SampleValues, MaxLen),
               period : (0 - (InvalidPeriods - 1))..MaxPeriod]
  /\ ret = NoResult
  /\ hook = NoHook
  /\ dashboard = NoDashboard

CallSMA ==
  /\ pc = "ready"
  /\ pc' = "done"
  /\ fn' = "calculateSMA"
  /\ ret' = Returned(calculateSMA(args.data, args.period))
  /\ UNCHANGED <<args, hook, dashboard>>

CallEMA ==
  /\ pc = "ready"
  /\ pc' = "done"
  /\ fn' = "calculateEMA"
  /\ ret' = Returned(calculateEMA(args.data, args.period))
  /\ UNCHANGED <<args, hook, dashboard>>

NextSeries == CallSMA \/ CallEMA

SpecSeries == InitSeries /\ [][NextSeries]_vars

-----------------------------------------------------------------------------
(* Claims about Series Math                                                *)

RECURSIVE RangeSum(_, _, _)
\* values[lo] + ... + values[hi], JavaScript indices
RangeSum(values, lo, hi) ==
  IF lo > hi THEN Zero ELSE Add(RangeSum(values, lo, hi - 1), values[hi + 1])

\* C8: a call of calculateSMA or calculateEMA with a period <= 0 raises an
\* error and never returns a result sequence.
C8_InvalidPeriodRaises ==
  (pc = "done" /\ args.period <= 0 /\ Len(args.data) > 0) => ret.status = "raised"

\* C10: for every numeric sequence and every period >= 1, calculateSMA
\* returns a sequence of the same length whose entries 0..period-2 are null
\* and whose entry i >= period-1 is a number that, multiplied by period, gives
\* values[i-period+1] + ... + values[i]; so with period > length every entry
\* is null.
C10_SMAIsTrailingMean ==
  (pc = "done" /\ fn = "calculateSMA" /\ args.period >= 1) =>
    /\ ret.status = "returned"
    /\ Len(ret.value) = Len(args.data)
    /\ \A i \in 0..(Len(args.data) - 1) :
         IF i <= args.period - 2
         THEN ret.value[i + 1] = Null
         ELSE /\ IsNum(ret.value[i + 1])
              /\ Mul(ret.value[i + 1], Num(args.period))
                   = RangeSum(args.data, i - args.period + 1, i)
    /\ (args.period > Len(args.data) =>
          \A k \in 1..Len(ret.value) : ret.value[k] = Null)

\* a call with a warm-up entry, then two means of different windows
C10_Witness ==
  /\ pc = "done" /\ fn = "calculateSMA"
  /\ args.period = 2 /\ Len(args.data) = 3
  /\ ret.value[1] = Null
  /\ IsNum(ret.value[2]) /\ IsNum(ret.value[3])
  /\ ret.value[2] # ret.value[3]

\* C11: for every non-empty numeric sequence and every period >= 1,
\* calculateEMA returns a sequence of the same length without a null entry,
\* with ema[0] = values[0] and ema[i] = values[i]*k + ema[i-1]*(1-k) for
\* i >= 1, k = 2/(period+1).
C11_EMADefinedFromStart ==
  (pc = "done" /\ fn = "calculateEMA" /\ args.period >= 1 /\ Len(args.data) > 0) =>
    /\ ret.status = "returned"
    /\ Len(ret.value) = Len(args.data)
    /\ \A k \in 1..Len(ret.value) : IsNum(ret.value[k])
    /\ ret.value[1] = args.data[1]
    /\ \A i \in 1..(Len(args.data) - 1) :
         ret.value[i + 1] =
           Add(Mul(args.data[i + 1], Rat(2, args.period + 1)),
               Mul(ret.value[i], Sub(Num(1), Rat(2, args.period + 1))))

\* a call whose period exceeds the length of the sequence, with a value at
\* every index and the average moving
C11_Witness ==
  /\ pc = "done" /\ fn = "calculateEMA"
  /\ args.period = 4 /\ Len(args.data) = 3
  /\ \A k \in 1..3 : IsNum(ret.value[k])
  /\ ret.value[2] # ret.value[1] /\ ret.value[3] # ret.value[2]

-----------------------------------------------------------------------------
(* SpecStrength: calculateSignalStrength on signal lists                   *)

InitStrength ==
  /\ pc = "ready"
  /\ fn = "none"
  /\ args \in [signals : SeqsUpTo(SampleSignals, MaxSignals)]
  /\ ret = NoResult
  /\ hook = NoHook
  /\ dashboard = NoDashboard

CallSignalStrength ==
  /\ pc = "ready"
  /\ pc' = "done"
  /\ fn' = "calculateSignalStrength"
  /\ ret' = Returned(calculateSignalStrength(args.signals))
  /\ UNCHANGED <<args, hook, dashboard>>

NextStrength == CallSignalStrength

SpecStrength == InitStrength /\ [][NextStrength]_vars

-----------------------------------------------------------------------------
(* Claims about the Strength Aggregator                                    *)

\* the tier of a verdict without its BUY or SELL side
TierMagnitude(strength) ==
  CASE strength \in {"STRONG BUY", "STRONG SELL"} -> "STRONG"
    [] strength \in {"MODERATE BUY", "MODERATE SELL"} -> "MODERATE"
    [] strength \in {"WEAK BUY", "WEAK SELL"} -> "WEAK"
    [] strength = "WAIT" -> "WAIT"

\* the tier the rules of the claim give, first match first
ClaimedTier(bullishWeight, bearishWeight, highConfidenceCount) ==
  LET c == MaxInt(bullishWeight, bearishWeight)
      net == bullishWeight - bearishWeight
  IN  CASE (c >= 5 /\ highConfidenceCount >= 2) \/ c >= 7 -> "STRONG"
        [] ~((c >= 5 /\ highConfidenceCount >= 2) \/ c >= 7)
           /\ ((c >= 3 /\ highConfidenceCount >= 1) \/ c >= 4) -> "MODERATE"
        [] ~((c >= 5 /\ highConfidenceCount >= 2) \/ c >= 7)
           /\ ~((c >= 3 /\ highConfidenceCount >= 1) \/ c >= 4)
           /\ c >= 2 /\ (net >= 2 \/ net <= -2) -> "WEAK"
        [] OTHER -> "WAIT"

\* C3: the tier of the verdict is the first matching rule of STRONG,
\* MODERATE, WEAK, WAIT on confirmationCount = max(bullishWeight,
\* bearishWeight), highConfidenceCount and netScore, and the returned
\* netScore is |bullishWeight - bearishWeight| >= 0.
C3_TierByFirstMatch ==
  (pc = "done" /\ fn = "calculateSignalStrength") =>
    LET v == ret.value
    IN  /\ TierMagnitude(v.strength)
             = ClaimedTier(v.bullishCount, v.bearishCount, v.highConfidenceCount)
        /\ v.netScore >= 0
        /\ v.netScore \in {v.bullishCount - v.bearishCount,
                           v.bearishCount - v.bullishCount}

\* a verdict that is WAIT only because |netScore| < 2: 3 bullish against 2
\* bearish, no HIGH signal
C3_Witness ==
  /\ pc = "done" /\ fn = "calculateSignalStrength"
  /\ ret.value.bullishCount = 3 /\ ret.value.bearishCount = 2
  /\ ret.value.highConfidenceCount = 0
  /\ ret.value.strength = "WAIT" /\ ret.value.netScore = 1

\* how many signals of the list have this direction and this confidence
CountOf(signals, direction, confidence) ==
  Cardinality({k \in 1..Len(signals) :
                 signals[k].signal = direction /\ signals[k].confidence = confidence})

WeightOf(signals, direction) ==
  3 * CountOf(signals, direction, "HIGH") + 2 * CountOf(signals, direction, "MEDIUM")
    + CountOf(signals, direction, "LOW")

\* C4: on a list whose signals all carry a confidence HIGH, MEDIUM or LOW,
\* bullishCount is the sum of the weights 3, 2, 1 of the BULLISH signals,
\* bearishCount that of the BEARISH ones (NEUTRAL and CAUTION add to
\* neither), highConfidenceCount counts the HIGH signals of every direction,
\* and totalSignals is the length of the list.
C4_WeightsAndCounts ==
  (/\ pc = "done" /\ fn = "calculateSignalStrength"
   /\ \A k \in 1..Len(args.signals) : args.signals[k].confidence \in Confidences) =>
    LET v == ret.value
    IN  /\ v.bullishCount = WeightOf(args.signals, "BULLISH")
        /\ v.bearishCount = WeightOf(args.signals, "BEARISH")
        /\ v.highConfidenceCount
             = Cardinality({k \in 1..Len(args.signals) :
                              args.signals[k].confidence = "HIGH"})
        /\ v.totalSignals = Len(args.signals)

\* a list with a HIGH signal that is neither bullish nor bearish, next to a
\* MEDIUM bullish and a LOW bearish one
C4_Witness ==
  /\ pc = "done" /\ fn = "calculateSignalStrength"
  /\ Len(args.signals) = 3
  /\ \E i, j, k \in 1..3 :
       /\ args.signals[i].signal = "CAUTION" /\ args.signals[i].confidence = "HIGH"
       /\ args.signals[j].signal = "BULLISH" /\ args.signals[j].confidence = "MEDIUM"
       /\ args.signals[k].signal = "BEARISH" /\ args.signals[k].confidence = "LOW"
  /\ ret.value.highConfidenceCount = 1
  /\ ret.value.bullishCount = 2 /\ ret.value.bearishCount = 1

BuyTiers == {"WEAK BUY", "MODERATE BUY", "STRONG BUY"}

SellTiers == {"WEAK SELL", "MODERATE SELL", "STRONG SELL"}

\* C25: calculateSignalStrength returns a BUY tier only when bullishWeight >
\* bearishWeight and a SELL tier only when bearishWeight > bullishWeight;
\* with equal weights the verdict is neither a BUY nor a SELL tier.
C25_DirectionFollowsWeights ==
  pc = "done" =>
    /\ ret.value.strength \in BuyTiers =>
         ret.value.bullishCount > ret.value.bearishCount
    /\ ret.value.strength \in SellTiers =>
         ret.value.bearishCount > ret.value.bullishCount

-----------------------------------------------------------------------------
(* SpecStrengthPair: two calls of calculateSignalStrength                  *)

InitStrengthPair ==
  /\ pc = "ready"
  /\ fn = "none"
  /\ args \in [first : SeqsUpTo(PairSignals, MaxFirstSignals),
               second : SeqsUpTo(PairSignals, MaxSecondSignals)]
  /\ ret = NoResult
  /\ hook = NoHook
  /\ dashboard = NoDashboard

CallStrengthFirst ==
  /\ pc = "ready"
  /\ pc' = "called"
  /\ fn' = "calculateSignalStrength"
  /\ ret' = Returned([first |-> calculateSignalStrength(args.first), second |-> Null])
  /\ UNCHANGED <<args, hook, dashboard>>

CallStrengthSecond ==
  /\ pc = "called"
  /\ pc' = "done"
  /\ ret' = Returned([first |-> ret.value.first,
                      second |-> calculateSignalStrength(args.second)])
  /\ UNCHANGED <<fn, args, hook, dashboard>>

NextStrengthPair == CallStrengthFirst \/ CallStrengthSecond

SpecStrengthPair == InitStrengthPair /\ [][NextStrengthPair]_vars

-----------------------------------------------------------------------------
(* Claims about pairs of verdicts                                          *)

\* WAIT < WEAK < MODERATE < STRONG
TierRank(strength) ==
  CASE TierMagnitude(strength) = "WAIT" -> 0
    [] TierMagnitude(strength) = "WEAK" -> 1
    [] TierMagnitude(strength) = "MODERATE" -> 2
    [] TierMagnitude(strength) = "STRONG" -> 3

\* Math.max(bullishCount, bearishCount) of a verdict
ConfirmationCountOf(verdict) == MaxInt(verdict.bullishCount, verdict.bearishCount)

\* C15: ordering the tiers WAIT < WEAK < MODERATE < STRONG, of two verdicts
\* of calculateSignalStrength with the same highConfidenceCount and the same
\* |netScore|, the one with the larger confirmationCount never has the
\* lower tier.
C15_TierMonotonic ==
  (/\ pc = "done"
   /\ ret.value.first.highConfidenceCount = ret.value.second.highConfidenceCount
   /\ ret.value.first.netScore = ret.value.second.netScore
   /\ ConfirmationCountOf(ret.value.first) <= ConfirmationCountOf(ret.value.second))
    => TierRank(ret.value.first.strength) <= TierRank(ret.value.second.strength)

\* two verdicts that differ in confirmationCount only, and in their tier
C15_Witness ==
  /\ pc = "done"
  /\ ret.value.first.highConfidenceCount = ret.value.second.highConfidenceCount
  /\ ret.value.first.netScore = ret.value.second.netScore
  /\ ConfirmationCountOf(ret.value.first) < ConfirmationCountOf(ret.value.second)
  /\ TierRank(ret.value.first.strength) = 1
  /\ TierRank(ret.value.second.strength) = 2

-----------------------------------------------------------------------------
(* SpecFrame: calculateAllIndicators on whole series                       *)

InitFrame ==
  /\ pc = "ready"
  /\ fn = "none"
  /\ args \in [data : SampleSeries]
  /\ ret = NoResult
  /\ hook = NoHook
  /\ dashboard = NoDashboard

CallAllIndicators ==
  /\ pc = "ready"
  /\ pc' = "done"
  /\ fn' = "calculateAllIndicators"
  /\ ret' = Returned(calculateAllIndicators(args.data))
  /\ UNCHANGED <<args, hook, dashboard>>

NextFrame == CallAllIndicators

SpecFrame == InitFrame /\ [][NextFrame]_vars

-----------------------------------------------------------------------------
(* Claims about the frame of calculateAllIndicators                        *)

\* close[j] - close[j-1], JavaScript index j >= 1
Delta(data, j) == Sub(Close(data[j + 1]), Close(data[j]))

RECURSIVE SumGains(_, _, _)
\* the sum of the positive deltas of bars lo .. hi
SumGains(data, lo, hi) ==
  IF lo > hi THEN Zero
  ELSE Add(SumGains(data, lo, hi - 1),
           IF Gt(Delta(data, hi), Zero) THEN Delta(data, hi) ELSE Zero)

RECURSIVE SumLosses(_, _, _)
\* the sum of the sizes of the negative deltas of bars lo .. hi
SumLosses(data, lo, hi) ==
  IF lo > hi THEN Zero
  ELSE Add(SumLosses(data, lo, hi - 1),
           IF Lt(Delta(data, hi), Zero) THEN Neg(Delta(data, hi)) ELSE Zero)

\* 100 - 100/(1 + avgGain/avgLoss) over the 14 deltas ending at bar i, and
\* 100 when avgLoss is 0
FormulaRSI(data, i) ==
  IF SumLosses(data, i - 13, i) = Zero THEN Num(100)
  ELSE Sub(Num(100),
           Div(Num(100),
               Add(Num(1), Div(Div(SumGains(data, i - 13, i), Num(14)),
                               Div(SumLosses(data, i - 13, i), Num(14))))))

\* C1: in the frame calculateAllIndicators returns for a series of at least
\* 20 bars, rsi[i] for every i >= 14 equals 100 - 100/(1 + avgGain/avgLoss)
\* over the 14 close-to-close deltas ending at bar i, and 100 when avgLoss
\* is 0; a series that only loses over those deltas has rsi[i] = 0.
C1_RSIMatchesFormula ==
  (pc = "done" /\ Len(args.data) >= 20) =>
    \A i \in 14..(Len(args.data) - 1) :
      At(ret.value.indicators.rsi, i) = FormulaRSI(args.data, i)

\* the per-bar sequences of a frame
PerBarSequences(indicators) ==
  <<indicators.sma20, indicators.ema9, indicators.ema20, indicators.ema50,
    indicators.rsi, indicators.macd.macd, indicators.macd.signal,
    indicators.macd.histogram, indicators.bb.upper, indicators.bb.middle,
    indicators.bb.lower, indicators.vwap, indicators.atr, indicators.ttmSqueeze>>

\* C2: every per-bar sequence of the frame calculateAllIndicators returns has
\* exactly the length of the input series, and entry i of atr has no value
\* exactly when i < 14.
C2_PerBarSequencesAligned ==
  (pc = "done" /\ Len(args.data) >= 20) =>
    /\ \A k \in 1..14 :
         Len(PerBarSequences(ret.value.indicators)[k]) = Len(args.data)
    /\ \A i \in 0..(Len(args.data) - 1) :
         (At(ret.value.indicators.atr, i) = Null) <=> (i < 14)

\* C5: every signal generateSignals returns has a direction among BULLISH,
\* BEARISH, NEUTRAL, CAUTION and a confidence among LOW, MEDIUM, HIGH.
C5_SignalsHaveConfidence ==
  pc = "done" =>
    \A k \in 1..Len(ret.value.signals) :
      /\ ret.value.signals[k].signal \in Directions
      /\ ret.value.signals[k].confidence \in Confidences

\* sequence is an array of the given length with a finite number at every
\* index
ValueAtEveryIndex(sequence, length) ==
  /\ Present(sequence)
  /\ Len(sequence) = length
  /\ \A k \in 1..length : IsNum(sequence[k])

\* C7: for every series of 1 to 19 bars calculateAllIndicators does not raise
\* and returns a frame in which the indicators defined from index 0 (ema9,
\* ema20, ema50, vwap) are present with a value at every index.
C7_ShortSeriesKeepPartialFrame ==
  (pc = "done" /\ Len(args.data) \in 1..19) =>
    /\ ret.status = "returned"
    /\ ValueAtEveryIndex(ret.value.indicators.ema9, Len(args.data))
    /\ ValueAtEveryIndex(ret.value.indicators.ema20, Len(args.data))
    /\ ValueAtEveryIndex(ret.value.indicators.ema50, Len(args.data))
    /\ ValueAtEveryIndex(ret.value.indicators.vwap, Len(args.data))

\* the colour the four-state scheme gives a bar of the given momentum after
\* a bar of momentum previous
SchemeColor(momentum, previous) ==
  IF Gt(momentum, Zero)
  THEN (IF Gt(momentum, previous) THEN "lime" ELSE "green")
  ELSE (IF Gt(momentum, previous) THEN "maroon" ELSE "red")

\* C17: for every bar i of calculateTTMSqueeze with a defined predecessor
\* entry, barColor is lime when momentum[i] > 0 rises above momentum[i-1],
\* green when momentum[i] > 0 does not, red when momentum[i] <= 0 is
\* decreasing further (momentum[i] <= momentum[i-1]) and maroon when
\* momentum[i] <= 0 is recovering (momentum[i] > momentum[i-1]).
C17_BarColorScheme ==
  (pc = "done" /\ Len(args.data) >= MIN_BARS) =>
    \A i \in 1..(Len(args.data) - 1) :
      (/\ At(ret.value.indicators.ttmSqueeze, i) # Null
       /\ At(ret.value.indicators.ttmSqueeze, i - 1) # Null) =>
        At(ret.value.indicators.ttmSqueeze, i).barColor =
          SchemeColor(At(ret.value.indicators.ttmSqueeze, i).momentum,
                      At(ret.value.indicators.ttmSqueeze, i - 1).momentum)

\* the frame's signals hold a signal of this type, direction and confidence
FrameEmits(type, direction, confidence) ==
  \E k \in 1..Len(ret.value.signals) :
    ret.value.signals[k] = Signal(type, direction, confidence)

\* EMA9 is above (golden) or below EMA20 at JavaScript index i of the frame
EmaSide(i, golden) ==
  IF golden
  THEN Gt(At(ret.value.indicators.ema9, i), At(ret.value.indicators.ema20, i))
  ELSE Lt(At(ret.value.indicators.ema9, i), At(ret.value.indicators.ema20, i))

\* EMA9 moved to its side of EMA20 on the latest bar itself
CrossedOnLatest(latestIndex, golden) ==
  /\ latestIndex >= 1
  /\ EmaSide(latestIndex, golden)
  /\ ~EmaSide(latestIndex - 1, golden)

\* EMA9 is on its side of EMA20 on the latest bar and the bar before it, and
\* was not on one of the bars checked before that: the crossover is older
CrossedEarlier(latestIndex, golden) ==
  /\ latestIndex >= 2
  /\ EmaSide(latestIndex, golden)
  /\ EmaSide(latestIndex - 1, golden)
  /\ \E i \in 2..MinInt(5, latestIndex) : ~EmaSide(latestIndex - i, golden)

\* C18: in the frame of a series of at least 20 bars, a crossover of EMA9
\* over EMA20 on the latest bar is labelled 'Golden Cross (Recent)' with HIGH
\* confidence, EMA9 above EMA20 with the crossover on an older bar is
\* labelled 'Golden Cross Active' with MEDIUM confidence, and the same holds
\* mirrored for 'Death Cross (Recent)' and 'Death Cross Active'.
C18_CrossLabelledByAge ==
  (pc = "done" /\ Len(args.data) >= MIN_BARS) =>
    LET latestIndex == Len(args.data) - 1
    IN  /\ CrossedOnLatest(latestIndex, TRUE) =>
             FrameEmits("Golden Cross (Recent)", "BULLISH", "HIGH")
        /\ CrossedEarlier(latestIndex, TRUE) =>
             FrameEmits("Golden Cross Active", "BULLISH", "MEDIUM")
        /\ CrossedOnLatest(latestIndex, FALSE) =>
             FrameEmits("Death Cross (Recent)", "BEARISH", "HIGH")
        /\ CrossedEarlier(latestIndex, FALSE) =>
             FrameEmits("Death Cross Active", "BEARISH", "MEDIUM")

\* the MACD line and the signal line of the frame at JavaScript index i
FrameMacd(i) == At(ret.value.indicators.macd.macd, i)

FrameMacdSignal(i) == At(ret.value.indicators.macd.signal, i)

\* the MACD line crossed above the signal line on the latest bar
BullishCrossover(latestIndex) ==
  /\ Le(FrameMacd(latestIndex - 1), FrameMacdSignal(latestIndex - 1))
  /\ Gt(FrameMacd(latestIndex), FrameMacdSignal(latestIndex))

\* the MACD line crossed below the signal line on the latest bar
BearishCrossover(latestIndex) ==
  /\ Ge(FrameMacd(latestIndex - 1), FrameMacdSignal(latestIndex - 1))
  /\ Lt(FrameMacd(latestIndex), FrameMacdSignal(latestIndex))

\* the latest increase of the MACD line is less than half of the previous,
\* positive increase
MomentumWeakening(latestIndex) ==
  /\ Gt(Sub(FrameMacd(latestIndex - 1), FrameMacd(latestIndex - 2)), Zero)
  /\ Lt(Sub(FrameMacd(latestIndex), FrameMacd(latestIndex - 1)),
        Mul(Sub(FrameMacd(latestIndex - 1), FrameMacd(latestIndex - 2)),
            Rat(1, 2)))

\* C20: in the frame of a series of at least 20 bars, for every numeric
\* value of macd and signal at the latest and the previous bar (zero
\* included), 'MACD Bullish Crossover' (BULLISH/HIGH) is emitted exactly
\* when prevMacd <= prevSignal and macd > signal, 'MACD Bearish Crossover'
\* (BEARISH/HIGH) exactly when prevMacd >= prevSignal and macd < signal, and
\* 'MACD Momentum Weakening' (CAUTION/MEDIUM) only when neither crossover
\* holds, macd > signal and the increase of macd fell below half of the
\* previous, positive increase.
C20_MacdCrossoverRules ==
  (pc = "done" /\ Len(args.data) >= MIN_BARS) =>
    LET latestIndex == Len(args.data) - 1
    IN  (/\ IsNum(FrameMacd(latestIndex))
         /\ IsNum(FrameMacdSignal(latestIndex))
         /\ IsNum(FrameMacd(latestIndex - 1))
         /\ IsNum(FrameMacdSignal(latestIndex - 1))) =>
          /\ FrameEmits("MACD Bullish Crossover", "BULLISH", "HIGH")
               <=> BullishCrossover(latestIndex)
          /\ FrameEmits("MACD Bearish Crossover", "BEARISH", "HIGH")
               <=> BearishCrossover(latestIndex)
          /\ FrameEmits("MACD Momentum Weakening", "CAUTION", "MEDIUM") =>
               /\ ~BullishCrossover(latestIndex)
               /\ ~BearishCrossover(latestIndex)
               /\ Gt(FrameMacd(latestIndex), FrameMacdSignal(latestIndex))
               /\ MomentumWeakening(latestIndex)

TtmSignalTypes ==
  {"TTM Squeeze Active", "TTM Squeeze Breakout", "TTM Green Bar", "TTM Red Bar"}

\* C26: in the frame of calculateAllIndicators the ATR sequence is one entry
\* shorter than the series, the TTM Squeeze entry at the latest bar is
\* null, and the signals hold no 'TTM Squeeze Active', 'TTM Squeeze
\* Breakout', 'TTM Green Bar' or 'TTM Red Bar' signal.
C26_NoTtmSignalInFrame ==
  pc = "done" =>
    /\ Len(args.data) >= MIN_BARS =>
         /\ Len(ret.value.indicators.atr) = Len(args.data) - 1
         /\ At(ret.value.indicators.ttmSqueeze, Len(args.data) - 1) = Null
    /\ \A k \in 1..Len(ret.value.signals) :
         ret.value.signals[k].type \notin TtmSignalTypes

\* the bar before the latest has a TTM Squeeze entry that would give a
\* signal at the latest bar (a squeeze, or a lime or red bar), the latest
\* bar has none
C26_Witness ==
  /\ pc = "done"
  /\ Len(args.data) > MIN_BARS
  /\ At(ret.value.indicators.ttmSqueeze, Len(args.data) - 2) # Null
  /\ \/ At(ret.value.indicators.ttmSqueeze, Len(args.data) - 2).inSqueeze
     \/ At(ret.value.indicators.ttmSqueeze, Len(args.data) - 2).barColor
          \in {"lime", "red"}
  /\ At(ret.value.indicators.ttmSqueeze, Len(args.data) - 1) = Null

-----------------------------------------------------------------------------
(* SpecSignals: generateSignals on indicator sets with properties left out *)

InitSignals ==
  /\ pc = "ready"
  /\ fn = "none"
  /\ \E data \in SignalSeries, absent \in SUBSET OptionalIndicators :
       args = [data |-> data,
               indicators |-> Without(allIndicators(data), absent)]
  /\ ret = NoResult
  /\ hook = NoHook
  /\ dashboard = NoDashboard

CallGenerateSignals ==
  /\ pc = "ready"
  /\ pc' = "done"
  /\ fn' = "generateSignals"
  /\ ret' = Returned(generateSignals(args.data, args.indicators))
  /\ UNCHANGED <<args, hook, dashboard>>

NextSignals == CallGenerateSignals

SpecSignals == InitSignals /\ [][NextSignals]_vars

-----------------------------------------------------------------------------
(* Claims about generateSignals                                            *)

\* the indicator is present and holds a number at JavaScript index i
HasValueAt(indicator, i) ==
  Present(indicator) /\ IsNumberType(At(indicator, i)) /\ ~IsNaN(At(indicator, i))

\* the returned signals hold one whose type is in types
EmitsOneOf(types) ==
  \E k \in 1..Len(ret.value) : ret.value[k].type \in types

VwapZoneTypes ==
  {"VWAP Upper Zone", "VWAP Bullish Zone", "VWAP Support Zone",
   "VWAP Bounce Opportunity"}

RsiZoneTypes ==
  {"RSI Overbought", "RSI Oversold", "RSI Bullish Zone", "RSI Bearish Zone"}

\* C19: the rules of generateSignals do not depend on each other: the VWAP
\* rule emits its zone signal whenever vwap has a value at the latest index,
\* whether or not ema9, ema20 and ema50 are present, and the RSI rule emits
\* its zone signal whenever rsi has a value at the latest index, whether or
\* not macd is present.
C19_RulesIndependent ==
  pc = "done" =>
    LET latestIndex == Len(args.data) - 1
    IN  /\ HasValueAt(args.indicators.vwap, latestIndex) =>
             EmitsOneOf(VwapZoneTypes)
        /\ HasValueAt(args.indicators.rsi, latestIndex) =>
             EmitsOneOf(RsiZoneTypes)

-----------------------------------------------------------------------------
(* SpecRules: generateSignals on the indicators of series around 100       *)

InitRules ==
  /\ pc = "ready"
  /\ fn = "none"
  /\ \E data \in RuleSeries :
       \E indicators \in RuleIndicatorSets(data) :
         args = [data |-> data, indicators |-> indicators]
  /\ ret = NoResult
  /\ hook = NoHook
  /\ dashboard = NoDashboard

CallRules ==
  /\ pc = "ready"
  /\ pc' = "done"
  /\ fn' = "generateSignals"
  /\ ret' = Returned(generateSignals(args.data, args.indicators))
  /\ UNCHANGED <<args, hook, dashboard>>

NextRules == CallRules

SpecRules == InitRules /\ [][NextRules]_vars

-----------------------------------------------------------------------------
(* Claims about the rules of generateSignals                               *)

\* the returned signals whose type is in types, in order
SignalsOf(types) == SelectSeq(ret.value, LAMBDA s : s.type \in types)

\* the one RSI signal the rule table gives for the value r
ExpectedRsiSignal(r, macd, macdSignal, prevMacd) ==
  IF Gt(r, Num(70))
  THEN Signal("RSI Overbought", "BEARISH",
              IF Lt(macd, prevMacd) THEN "HIGH" ELSE "MEDIUM")
  ELSE IF Lt(r, Num(30))
  THEN Signal("RSI Oversold", "BULLISH",
              IF Gt(macd, macdSignal) THEN "HIGH" ELSE "MEDIUM")
  ELSE IF Gt(r, Num(50))
  THEN Signal("RSI Bullish Zone", "BULLISH", "LOW")
  ELSE Signal("RSI Bearish Zone", "BEARISH", "LOW")

\* C21: for every RSI value at the latest bar, 0 and 100 included,
\* generateSignals emits exactly one RSI signal: Overbought/BEARISH above 70,
\* Oversold/BULLISH below 30, Bullish Zone/BULLISH/LOW above 50 and up to
\* 70, Bearish Zone/BEARISH/LOW otherwise; Overbought has confidence HIGH
\* exactly when macd is lower than at the previous bar, Oversold exactly
\* when macd is above its signal line.
C21_RsiZoneSignal ==
  pc = "done" =>
    LET latestIndex == Len(args.data) - 1
    IN  HasValueAt(args.indicators.rsi, latestIndex) =>
          SignalsOf(RsiZoneTypes) =
            <<ExpectedRsiSignal(At(args.indicators.rsi, latestIndex),
                                At(args.indicators.macd.macd, latestIndex),
                                At(args.indicators.macd.signal, latestIndex),
                                At(args.indicators.macd.macd, latestIndex - 1))>>

\* the percentage distance of the latest close from VWAP
VwapDistance ==
  LET latestIndex == Len(args.data) - 1
      price == Close(args.data[Len(args.data)])
      vwap == At(args.indicators.vwap, latestIndex)
  IN  Mul(Div(Sub(price, vwap), vwap), Num(100))

\* the signal s is the one the zone table gives for the distance d
InVwapZone(s, d) ==
  IF Gt(d, Num(2)) THEN s.signal = "CAUTION"
  ELSE IF Gt(d, Zero) THEN s.signal = "BULLISH"
  ELSE IF Ge(d, Num(-2)) THEN s.signal = "NEUTRAL" /\ s.confidence = "LOW"
  ELSE s = Signal("VWAP Bounce Opportunity", "BULLISH", "HIGH")

\* C22: with d the percentage distance of the latest close from VWAP, the
\* VWAP rule emits exactly one signal: CAUTION when d > 2, BULLISH when
\* 0 < d <= 2, NEUTRAL/LOW when -2 <= d <= 0, and 'VWAP Bounce Opportunity'
\* BULLISH/HIGH when d < -2; it never emits a BEARISH signal.
C22_VwapZoneSignal ==
  pc = "done" =>
    /\ Len(SignalsOf(VwapZoneTypes)) = 1
    /\ InVwapZone(SignalsOf(VwapZoneTypes)[1], VwapDistance)
    /\ SignalsOf(VwapZoneTypes)[1].signal # "BEARISH"

-----------------------------------------------------------------------------
(* SpecOrder: generateSignals with every rule's indicator given            *)

InitOrder ==
  /\ pc = "ready"
  /\ fn = "none"
  /\ \E data \in OrderSeries, ttmSqueeze \in SampleSqueezes(MaxOrderBars),
        supportResistance \in SampleLevels, patterns \in SampleDoublePatterns :
       args = [data |-> data,
               indicators |->
                 [allIndicators(data) EXCEPT
                    !.ttmSqueeze = ttmSqueeze,
                    !.supportResistance = supportResistance,
                    !.patterns = patterns]]
  /\ ret = NoResult
  /\ hook = NoHook
  /\ dashboard = NoDashboard

CallOrder ==
  /\ pc = "ready"
  /\ pc' = "done"
  /\ fn' = "generateSignals"
  /\ ret' = Returned(generateSignals(args.data, args.indicators))
  /\ UNCHANGED <<args, hook, dashboard>>

NextOrder == CallOrder

SpecOrder == InitOrder /\ [][NextOrder]_vars

-----------------------------------------------------------------------------
(* Claims about the order of the signals                                   *)

\* the place of a signal type's rule in the rule order
RuleRank(type) ==
  CASE type \in RsiZoneTypes -> 1
    [] type \in {"MACD Bullish Crossover", "MACD Bearish Crossover",
                 "MACD Momentum Weakening"} -> 2
    [] type \in {"Bollinger Upper Band", "Bollinger Lower Band"} -> 3
    [] type \in {"EMA Perfect Bullish Stack", "EMA Perfect Bearish Stack",
                 "Golden Cross (Recent)", "Golden Cross Active",
                 "Death Cross (Recent)", "Death Cross Active"} -> 4
    [] type \in VwapZoneTypes -> 5
    [] type \in {"TTM Squeeze Active", "TTM Squeeze Breakout",
                 "TTM Green Bar", "TTM Red Bar"} -> 6
    [] type \in {"At Support Level", "At Resistance Level"} -> 7
    [] type \in {"Double Top", "Double Bottom"} -> 8

\* C23: the signals generateSignals returns appear in the rule order RSI,
\* MACD, Bollinger Bands, EMA stack and Golden/Death Cross, VWAP zone, TTM
\* Squeeze, Support/Resistance, Patterns: of any two signals, the one whose
\* rule comes earlier has the smaller index.
C23_SignalsInRuleOrder ==
  pc = "done" =>
    \A i, j \in 1..Len(ret.value) :
      RuleRank(ret.value[i].type) < RuleRank(ret.value[j].type) => i < j

\* signals of the EMA block, the TTM Squeeze rule, the level rule and the
\* pattern rule are returned together with an RSI signal
C23_Witness ==
  /\ pc = "done"
  /\ \A rank \in {1, 4, 5, 6, 7, 8} :
       \E k \in 1..Len(ret.value) : RuleRank(ret.value[k].type) = rank

-----------------------------------------------------------------------------
(* SpecLevels: detectSupportResistance on short series                     *)

InitLevels ==
  /\ pc = "ready"
  /\ fn = "none"
  /\ args \in [data : SeqsUpTo(LevelBars, MaxLevelBars),
               lookback : 1..MaxLevelLookback,
               touchThreshold : {SR_TOUCH_THRESHOLD}]
  /\ ret = NoResult
  /\ hook = NoHook
  /\ dashboard = NoDashboard

CallLevels ==
  /\ pc = "ready"
  /\ pc' = "done"
  /\ fn' = "detectSupportResistance"
  /\ ret' = Returned(detectSupportResistance(args.data, args.lookback,
                                             args.touchThreshold))
  /\ UNCHANGED <<args, hook, dashboard>>

NextLevels == CallLevels

SpecLevels == InitLevels /\ [][NextLevels]_vars

-----------------------------------------------------------------------------
(* Claims about detectSupportResistance                                    *)

\* the local-extremum candidates in the order they are merged: the highs,
\* then the lows
Candidates ==
  localHighs(args.data, args.lookback, "resistance")
    \o localLows(args.data, args.lookback, "support")

\* the level founded by candidate g is within touchThreshold of candidate c
WithinThreshold(g, c) ==
  Lt(Div(Abs(Sub(g.price, c.price)), c.price), args.touchThreshold)

RECURSIVE Founds(_, _)
\* candidate k founds a new level: no level founded before it is within the
\* threshold of its price
Founds(c, k) ==
  \A j \in 1..(k - 1) : Founds(c, j) => ~WithinThreshold(c[j], c[k])

\* the founder of the one level candidate k is merged into
LevelOf(c, k) ==
  IF Founds(c, k) THEN k
  ELSE CHOOSE j \in 1..(k - 1) :
         /\ Founds(c, j) /\ WithinThreshold(c[j], c[k])
         /\ \A m \in 1..(j - 1) : ~(Founds(c, m) /\ WithinThreshold(c[m], c[k]))

\* the candidates merged into the level founded by candidate f
MergedInto(c, f) == {k \in 1..Len(c) : LevelOf(c, k) = f}

\* the level founded by candidate f, with its touches counted and its
\* lastTouch the greatest bar index among the candidates merged into it
MergedLevel(c, f) ==
  [price |-> c[f].price, type |-> c[f].type,
   touches |-> Cardinality(MergedInto(c, f)),
   lastTouch |-> CHOOSE i \in {c[k].index : k \in MergedInto(c, f)} :
                   \A k \in MergedInto(c, f) : c[k].index <= i]

\* C24: detectSupportResistance merges every local-extremum candidate into
\* exactly one level, the first level within touchThreshold of its price or
\* else a new one; a level's touches is the number of candidates merged into
\* it and its lastTouch the greatest bar index among them; the levels
\* reported are exactly those with touches >= 2.
C24_LevelsMergeCandidates ==
  pc = "done" =>
    LET c == Candidates
        founders == SelectSeq([k \in 1..Len(c) |-> k],
                              LAMBDA f : Founds(c, f)
                                         /\ Cardinality(MergedInto(c, f)) >= 2)
    IN  ret.value = [n \in 1..Len(founders) |-> MergedLevel(c, founders[n])]

\* a low is merged into a reported level that a high founded, and an
\* extremum that stays alone in its level is not reported
C24_Witness ==
  /\ pc = "done"
  /\ Len(ret.value) >= 1
  /\ \E k \in 1..Len(Candidates) :
       /\ Candidates[k].type = "support"
       /\ Candidates[LevelOf(Candidates, k)].type = "resistance"
       /\ Cardinality(MergedInto(Candidates, LevelOf(Candidates, k))) >= 2
  /\ \E k \in 1..Len(Candidates) :
       Cardinality(MergedInto(Candidates, LevelOf(Candidates, k))) = 1

-----------------------------------------------------------------------------
(* SpecLivePrices: one useLivePrices instance and its sockets and timers   *)

InitLivePrices ==
  /\ pc = "ready"
  /\ fn = "none"
  /\ args = NoArgs
  /\ ret = NoResult
  /\ \E hasSymbols \in BOOLEAN : hook = renderedHook(hasSymbols)
  /\ dashboard = NoDashboard

\* the effect of the first render: connect()
RunEffect ==
  /\ hook.phase = "rendered"
  /\ hook' = [connect(hook, 1) EXCEPT !.phase = "mounted"]
  /\ UNCHANGED <<pc, fn, args, ret, dashboard>>

\* symbols changes: the cleanup of the current effect, then the next effect
ChangeSymbols ==
  /\ hook.phase = "mounted"
  /\ Len(hook.symbols) < MaxEffects
  /\ Len(hook.sockets) < MaxSockets
  /\ \E hasSymbols \in BOOLEAN :
       hook' = connect([cleanup(hook) EXCEPT !.symbols = Append(@, hasSymbols)],
                       Len(hook.symbols) + 1)
  /\ UNCHANGED <<pc, fn, args, ret, dashboard>>

\* the component unmounts: the cleanup of the current effect
Unmount ==
  /\ hook.phase = "mounted"
  /\ hook' = [cleanup(hook) EXCEPT !.phase = "unmounted"]
  /\ UNCHANGED <<pc, fn, args, ret, dashboard>>

\* the open event of a socket
SocketOpens ==
  /\ hook.phase \in {"mounted", "unmounted"}
  /\ \E s \in 1..Len(hook.sockets) :
       /\ hook.sockets[s].state = "connecting"
       /\ hook' = onopen(hook, s)
  /\ UNCHANGED <<pc, fn, args, ret, dashboard>>

\* the error event of a socket
SocketFails ==
  /\ hook.phase \in {"mounted", "unmounted"}
  /\ \E s \in 1..Len(hook.sockets) :
       /\ hook.sockets[s].state \in {"connecting", "open"}
       /\ hook' = onerror(hook, s)
  /\ UNCHANGED <<pc, fn, args, ret, dashboard>>

\* the close event of a socket: closed by the server, after an error, or
\* after close() was called on it
SocketCloses ==
  /\ hook.phase \in {"mounted", "unmounted"}
  /\ Len(hook.timers) < MaxTimers
  /\ \E s \in 1..Len(hook.sockets) :
       /\ hook.sockets[s].state \in {"connecting", "open", "closing"}
       /\ hook' = onclose(hook, s)
  /\ UNCHANGED <<pc, fn, args, ret, dashboard>>

\* a reconnect timer that was not cleared fires after 3 seconds
TimerFires ==
  /\ hook.phase \in {"mounted", "unmounted"}
  /\ Len(hook.sockets) < MaxSockets
  /\ \E t \in 1..Len(hook.timers) :
       /\ hook.timers[t].pending
       /\ hook' = reconnectTimeout(hook, t)
  /\ UNCHANGED <<pc, fn, args, ret, dashboard>>

\* the component calls the reconnect the hook returned
ManualReconnect ==
  /\ hook.phase = "mounted"
  /\ Len(hook.sockets) < MaxSockets
  /\ hook' = reconnect(hook)
  /\ UNCHANGED <<pc, fn, args, ret, dashboard>>

NextLivePrices ==
  \/ RunEffect
  \/ ChangeSymbols
  \/ Unmount
  \/ SocketOpens
  \/ SocketFails
  \/ SocketCloses
  \/ TimerFires
  \/ ManualReconnect

SpecLivePrices == InitLivePrices /\ [][NextLivePrices]_vars

-----------------------------------------------------------------------------
(* Claims about useLivePrices                                              *)

\* the sockets that are connecting or open
LiveSockets ==
  {s \in 1..Len(hook.sockets) : hook.sockets[s].state \in {"connecting", "open"}}

\* C28: once the cleanup of an effect has run (unmount or change of
\* symbols), no WebSocket is opened on behalf of that effect: every socket a
\* step creates belongs to the current effect of a mounted hook.
C28_NoSocketAfterCleanup ==
  [][hook.phase \in {"mounted", "unmounted"} =>
       \A s \in (Len(hook.sockets) + 1)..Len(hook'.sockets) :
         /\ hook'.phase = "mounted"
         /\ hook'.sockets[s].owner = Len(hook'.symbols)]_vars

\* C29: while the hook is mounted with the symbols of its first render, in
\* every interleaving of open, close and error events, the reconnect timer
\* and calls of reconnect(), at most one of its WebSockets is connecting or
\* open.
C29_AtMostOneLiveSocket ==
  (hook.phase = "mounted" /\ Len(hook.symbols) = 1) =>
    Cardinality(LiveSockets) <= 1

-----------------------------------------------------------------------------
(* SpecDashboard: the loadData runs of one EnhancedDashboard               *)

InitDashboard ==
  /\ pc = "ready"
  /\ fn = "none"
  /\ args = NoArgs
  /\ ret = NoResult
  /\ hook = NoHook
  /\ dashboard = renderedDashboard

\* the effect runs loadData: on mount, and when the symbol, the timeframe or
\* the period changes; the run waits for the technical-analysis endpoint
StartLoadData ==
  /\ dashboard.started < MaxLoads
  /\ dashboard' = [dashboard EXCEPT !.phase = "mounted",
                                    !.started = @ + 1, !.waiting = @ + 1]
  /\ UNCHANGED <<pc, fn, args, ret, hook>>

\* a run gets the signals of the backend: technicalDataResponse.signals || []
LoadBackendSignals ==
  /\ dashboard.waiting > 0
  /\ \E signals \in BackendSignalLists :
       dashboard' = showSignals([dashboard EXCEPT !.waiting = @ - 1], signals)
  /\ UNCHANGED <<pc, fn, args, ret, hook>>

\* the backend fails for a run, which falls back to calculateAllIndicators on
\* the chart data
LoadFrontendSignals ==
  /\ dashboard.waiting > 0
  /\ \E dataForCalculation \in ChartSeries :
       dashboard' = showSignals([dashboard EXCEPT !.waiting = @ - 1],
                                calculateAllIndicators(dataForCalculation).signals)
  /\ UNCHANGED <<pc, fn, args, ret, hook>>

NextDashboard ==
  \/ StartLoadData
  \/ LoadBackendSignals
  \/ LoadFrontendSignals

SpecDashboard == InitDashboard /\ [][NextDashboard]_vars

-----------------------------------------------------------------------------
(* Claims about EnhancedDashboard                                          *)

\* C30: after any sequence of loadData runs the displayed signalStrength is
\* the result of calculateSignalStrength on the displayed activeSignals (no
\* verdict, or the verdict of the empty list, when there is no signal): a
\* verdict of an earlier list does not stay next to a newer list.
C30_VerdictMatchesSignals ==
  IF dashboard.activeSignals = << >>
  THEN dashboard.signalStrength \in {Null, calculateSignalStrength(<< >>)}
  ELSE dashboard.signalStrength = calculateSignalStrength(dashboard.activeSignals)

-----------------------------------------------------------------------------
(* SpecRSI: calculateRSI on series of bars                                 *)

InitRSI ==
  /\ pc = "ready"
  /\ fn = "none"
  /\ args \in [data : SeqsUpTo(RsiBars, MaxRsiLen), period : 1..MaxRsiPeriod]
  /\ ret = NoResult
  /\ hook = NoHook
  /\ dashboard = NoDashboard

CallRSI ==
  /\ pc = "ready"
  /\ pc' = "done"
  /\ fn' = "calculateRSI"
  /\ ret' = Returned(calculateRSI(args.data, args.period))
  /\ UNCHANGED <<args, hook, dashboard>>

NextRSI == CallRSI

SpecRSI == InitRSI /\ [][NextRSI]_vars

-----------------------------------------------------------------------------
(* Claims about calculateRSI                                               *)

\* C12: for every series of bars with numeric closes, every entry of
\* calculateRSI that is not null lies in [0, 100], the entries at the indices
\* below period are null, and the entry is exactly 100 whenever the losses
\* over the trailing period deltas are 0.
C12_RSIBounded ==
  pc = "done" =>
    \A i \in 0..(Len(args.data) - 1) :
      /\ i < args.period => At(ret.value, i) = Null
      /\ At(ret.value, i) # Null =>
           /\ IsNum(At(ret.value, i))
           /\ Ge(At(ret.value, i), Zero)
           /\ Le(At(ret.value, i), Num(100))
      /\ (i >= args.period /\ SumLosses(args.data, i - args.period + 1, i) = Zero) =>
           At(ret.value, i) = Num(100)

\* a call with a null warm-up entry, an entry strictly inside (0, 100) and
\* an entry 100 over deltas without a loss
C12_Witness ==
  /\ pc = "done" /\ fn = "calculateRSI"
  /\ At(ret.value, 0) = Null
  /\ \E i \in 1..(Len(args.data) - 1) :
       Gt(At(ret.value, i), Zero) /\ Lt(At(ret.value, i), Num(100))
  /\ \E i \in args.period..(Len(args.data) - 1) :
       /\ SumLosses(args.data, i - args.period + 1, i) = Zero
       /\ At(ret.value, i) = Num(100)

-----------------------------------------------------------------------------
(* SpecMACD: calculateMACD on close series                                 *)

InitMACD ==
  /\ pc = "ready"
  /\ fn = "none"
  /\ args \in SampleMacdCalls
  /\ ret = NoResult
  /\ hook = NoHook
  /\ dashboard = NoDashboard

CallMACD ==
  /\ pc = "ready"
  /\ pc' = "done"
  /\ fn' = "calculateMACD"
  /\ ret' = Returned(calculateMACD(args.data, args.fastPeriod, args.slowPeriod,
                                   args.signalPeriod))
  /\ UNCHANGED <<args, hook, dashboard>>

NextMACD == CallMACD

SpecMACD == InitMACD /\ [][NextMACD]_vars

-----------------------------------------------------------------------------
(* Claims about calculateMACD                                              *)

\* C13: for every close series and every index i, calculateMACD returns
\* histogram[i] = macd[i] - signal[i], with macd[i] the fast EMA minus the
\* slow EMA of the closes and signal the EMA of the macd line itself, seeded
\* with macd[0]; the three sequences hold a number from index 0 on.
C13_HistogramIsMacdMinusSignal ==
  pc = "done" =>
    /\ Len(ret.value.macd) = Len(args.data)
    /\ Len(ret.value.signal) = Len(args.data)
    /\ Len(ret.value.histogram) = Len(args.data)
    /\ ret.value.signal = calculateEMA(ret.value.macd, args.signalPeriod)
    /\ \A k \in 1..Len(args.data) :
         /\ IsNum(ret.value.macd[k])
         /\ IsNum(ret.value.signal[k])
         /\ IsNum(ret.value.histogram[k])
         /\ ret.value.macd[k] = Sub(calculateEMA(args.data, args.fastPeriod)[k],
                                    calculateEMA(args.data, args.slowPeriod)[k])
         /\ ret.value.histogram[k] = Sub(ret.value.macd[k], ret.value.signal[k])
    /\ Len(args.data) > 0 => ret.value.signal[1] = ret.value.macd[1]

\* a call with the default periods whose macd line has left its signal line
C13_Witness ==
  /\ pc = "done" /\ fn = "calculateMACD"
  /\ args.fastPeriod = 12 /\ args.slowPeriod = 26 /\ args.signalPeriod = 9
  /\ Len(args.data) >= 3
  /\ ret.value.histogram[Len(args.data)] # Zero
  /\ ret.value.signal[Len(args.data)] # Zero

-----------------------------------------------------------------------------
(* SpecVWAP: calculateVWAP on short series with malformed bars             *)

InitVWAP ==
  /\ pc = "ready"
  /\ fn = "none"
  /\ args \in [data : SeqsUpTo(VwapBars, MaxVwapBars)]
  /\ ret = NoResult
  /\ hook = NoHook
  /\ dashboard = NoDashboard

CallVWAP ==
  /\ pc = "ready"
  /\ pc' = "done"
  /\ fn' = "calculateVWAP"
  /\ ret' = Returned(calculateVWAP(args.data))
  /\ UNCHANGED <<args, hook, dashboard>>

NextVWAP == CallVWAP

SpecVWAP == InitVWAP /\ [][NextVWAP]_vars

-----------------------------------------------------------------------------
(* Claims about calculateVWAP                                              *)

\* the bar as the substitutions of the error policy leave it: volume 1 for a
\* negative volume, close for a missing high or low
Substituted(bar) ==
  Bar(IF High(bar) = Undefined THEN Close(bar) ELSE High(bar),
      IF Low(bar) = Undefined THEN Close(bar) ELSE Low(bar),
      Close(bar),
      IF Lt(Volume(bar), Zero) THEN Num(1) ELSE Volume(bar))

\* C9: calculateVWAP treats a bar of negative volume as having volume 1 and
\* a bar whose high or low is missing as having high = low = close, and so
\* returns a finite number at every index of a series with such bars.
C9_MalformedBarsSubstituted ==
  pc = "done" =>
    /\ ret.value = calculateVWAP([k \in 1..Len(args.data) |-> Substituted(args.data[k])])
    /\ \A k \in 1..Len(args.data) : IsNum(ret.value[k])

\* (high + low + close) / 3
TypicalPrice(bar) == Div(Add(Add(High(bar), Low(bar)), Close(bar)), Num(3))

\* high, low and close are numbers and the volume is missing or not negative
NonNegativeVolume(bar) ==
  /\ IsNum(High(bar)) /\ IsNum(Low(bar)) /\ IsNum(Close(bar))
  /\ (Volume(bar) = Undefined \/ (IsNum(Volume(bar)) /\ Ge(Volume(bar), Zero)))

\* C14: for every series whose bars have a non-negative (or zero, or missing)
\* volume, calculateVWAP at every index i is a number between the minimum
\* and the maximum of the typical prices of bars 0..i; for a series flat at
\* price p with volume 0 throughout it is p at every index.
C14_VWAPWithinTypicalRange ==
  (pc = "done" /\ \A k \in 1..Len(args.data) : NonNegativeVolume(args.data[k])) =>
    /\ Len(ret.value) = Len(args.data)
    /\ \A i \in 1..Len(args.data) :
         /\ IsNum(ret.value[i])
         /\ \E j \in 1..i : Le(TypicalPrice(args.data[j]), ret.value[i])
         /\ \E j \in 1..i : Ge(TypicalPrice(args.data[j]), ret.value[i])
    /\ \A p \in {Close(args.data[k]) : k \in 1..Len(args.data)} :
         (\A k \in 1..Len(args.data) : args.data[k] = Bar(p, p, p, Zero)) =>
           \A i \in 1..Len(args.data) : ret.value[i] = p

\* a series that starts with two bars flat at 50 without volume, where VWAP
\* is 50, and ends on a bar that moves it strictly inside the range
C14_Witness ==
  /\ pc = "done" /\ fn = "calculateVWAP" /\ Len(args.data) = 3
  /\ \A k \in 1..3 : NonNegativeVolume(args.data[k])
  /\ args.data[1] = Bar(Num(50), Num(50), Num(50), Zero)
  /\ args.data[2] = Bar(Num(50), Num(50), Num(50), Zero)
  /\ ret.value[1] = Num(50) /\ ret.value[2] = Num(50)
  /\ Lt(ret.value[3], Num(50))
  /\ Gt(ret.value[3], TypicalPrice(args.data[3]))

-----------------------------------------------------------------------------
(* SpecPatterns: detectDoubleTopBottom with its default parameters          *)

InitPatterns ==
  /\ pc = "ready"
  /\ fn = "none"
  /\ args \in [data : SamplePatternSeries]
  /\ ret = NoResult
  /\ hook = NoHook
  /\ dashboard = NoDashboard

CallDoubleTopBottom ==
  /\ pc = "ready"
  /\ pc' = "done"
  /\ fn' = "detectDoubleTopBottom"
  /\ ret' = Returned(detectDoubleTopBottom(args.data, DT_LOOKBACK, DT_TOLERANCE))
  /\ UNCHANGED <<args, hook, dashboard>>

NextPatterns == CallDoubleTopBottom

SpecPatterns == InitPatterns /\ [][NextPatterns]_vars

-----------------------------------------------------------------------------
(* Claims about detectDoubleTopBottom                                      *)

\* the local peaks of data: the bars whose high strictly exceeds the high of
\* every other bar of the window of DT_LOOKBACK bars on each side
PeakIndices(data) ==
  {i \in DT_LOOKBACK..(Len(data) - DT_LOOKBACK - 1) :
     \A j \in (i - DT_LOOKBACK)..(i + DT_LOOKBACK) :
       j # i => Lt(High(data[j + 1]), High(data[i + 1]))}

FirstPeak(data) == CHOOSE i \in PeakIndices(data) : \A j \in PeakIndices(data) : i <= j

SecondPeak(data) == CHOOSE i \in PeakIndices(data) : \A j \in PeakIndices(data) : j <= i

\* the patterns of the given type among the reported ones
PatternsOfType(patterns, type) == SelectSeq(patterns, LAMBDA p : p.type = type)

\* exactly one Double Top is reported: the one of the two peaks of data
OneDoubleTopOf(data, patterns) ==
  PatternsOfType(patterns, "Double Top") =
    <<[type |-> "Double Top",
       price |-> Div(Add(High(data[FirstPeak(data) + 1]),
                         High(data[SecondPeak(data) + 1])), Num(2)),
       startIndex |-> FirstPeak(data),
       endIndex |-> SecondPeak(data),
       signal |-> "BEARISH"]>>

\* each price differs from the other by less than 3% of either
WithinThreePercent(p1, p2) ==
  /\ Lt(Abs(Sub(p1, p2)), Mul(Rat(3, 100), p1))
  /\ Lt(Abs(Sub(p1, p2)), Mul(Rat(3, 100), p2))

C27_NoPatternSignal ==
  pc = "done" =>
    /\ \A k \in 1..Len(ret.value) :
         ret.value[k].endIndex <= Len(args.data) - 51
    /\ patternSignals([EmptyObject EXCEPT !.patterns = ret.value],
                      Len(args.data) - 1) = << >>

\* a pattern is found that ends at the last bar that can be a peak
C27_Witness ==
  /\ pc = "done"
  /\ \E k \in 1..Len(ret.value) :
       ret.value[k].endIndex = Len(args.data) - 51

====
